---- MODULE Spec2Model ----
(***************************************************************************)
(* Verification model of qeel: the step-wise StrategyEngine, the artifact  *)
(* stores (ContextStore over an IO layer, InMemoryStore) and the schema    *)
(* validators that guard the tables passed between the components.         *)
(***************************************************************************)
EXTENDS Integers, Sequences, FiniteSets, TLC

VARIABLES
    store_type,   \* class of the context_store every engine was built with
    storage,      \* IO layer contents under outputs/context: path -> DataFrame
    mem,          \* InMemoryStore fields
    ctx,          \* self._context of the engine in use
    positions,    \* what exchange_client.fetch_positions() returns now
    pending,      \* the step names a running run_steps call has still to run
    saved,        \* <<component name, date>> pairs a save_* call was made for
    last,         \* the run_step call that has just ended, until its caller
                  \* has taken the outcome (NoCall otherwise)
    ncalls,       \* number of run_step calls made so far
    replay,       \* a step list run by one engine, to be run again by one
                  \* engine per step; for processes that share the store,
                  \* the runs of their calls alone (NoReplay otherwise)
    procs,        \* the run_step calls in progress of processes that share
                  \* the store
    exchange,     \* a MockExchangeClient (None when the exchange is not one)
    engine        \* the loop.universe and the data sources of an engine whose
                  \* sources are the shipped ones (None otherwise)

vars == <<store_type, storage, mem, ctx, positions, pending, saved, last, ncalls,
          replay, procs, exchange, engine>>

-----------------------------------------------------------------------------
(* Bounds of the model *)

NumDays == 2          \* calendar days a target datetime is drawn from
MaxCalls == 3         \* run_step calls per behaviour
MaxLoopCalls == 2     \* run_step calls per behaviour made through run_steps
MaxListLen == 2       \* longest step list handed to run_steps
MaxStoreOps == 3      \* direct calls of store operations per behaviour
MaxBars == 2          \* datetimes the OHLCV data source has bars for
MaxOrders == 2        \* rows of an order table handed to submit_orders
MaxExchangeOps == 3   \* calls of MockExchangeClient methods per behaviour
MaxFills == 3         \* fills in the fill history of a client
MaxSimCalls == 2      \* run_step calls of an engine over the simulator

(* Calendar: a datetime is a count of hours *)
HoursPerDay == 24
DaysPerMonth == 31

\* the times of day, in hours, a target datetime is drawn from
TimesOfDay == {9, 15}

\* the first day a target datetime is drawn from, counted from the first
\* of a month: the last day of the month, so that the days span two
\* YYYY/MM partitions
FirstDay == 30

Datetimes ==
    {(FirstDay + d) * HoursPerDay + h : d \in 0 .. (NumDays - 1), h \in TimesOfDay}

\* python None (an absent DataFrame, an absent Context, no original_error)
None == [none |-> TRUE]

\* python None where a datetime is expected
NoDatetime == -1

-----------------------------------------------------------------------------
(* StepName enum *)

CALCULATE_SIGNALS == "calculate_signals"
CONSTRUCT_PORTFOLIO == "construct_portfolio"
CREATE_ENTRY_ORDERS == "create_entry_orders"
CREATE_EXIT_ORDERS == "create_exit_orders"
SUBMIT_ENTRY_ORDERS == "submit_entry_orders"
SUBMIT_EXIT_ORDERS == "submit_exit_orders"

StepName == {CALCULATE_SIGNALS, CONSTRUCT_PORTFOLIO, CREATE_ENTRY_ORDERS,
             CREATE_EXIT_ORDERS, SUBMIT_ENTRY_ORDERS, SUBMIT_EXIT_ORDERS}

\* what a caller may pass as step_name: a member of the enum or anything
\* else (a plain string, say)
StepNameArgs == StepName \cup {"invalid_step"}

\* component names used by ContextStore._save_component and the Context fields
ComponentNames == {"signals", "portfolio_plan", "entry_orders", "exit_orders"}

-----------------------------------------------------------------------------
(* DataFrames.  A frame is a record: schema maps each column to its dtype, *)
(* rows is the sequence of rows (a row maps a column to a value, "null"    *)
(* for a missing value).                                                   *)

Height(df) == Len(df.rows)

SigGood ==
    [schema |-> [datetime |-> "Datetime", symbol |-> "String", signal |-> "Float64"],
     rows |-> <<[datetime |-> "d", symbol |-> "AAPL", signal |-> "1.0"]>>]
\* required column symbol is missing
SigNoSymbol ==
    [schema |-> [datetime |-> "Datetime", signal |-> "Float64"],
     rows |-> <<[datetime |-> "d", signal |-> "1.0"]>>]

PlanGood ==
    [schema |-> [datetime |-> "Datetime", symbol |-> "String"],
     rows |-> <<[datetime |-> "d", symbol |-> "AAPL"]>>]

OrderColumns ==
    [symbol |-> "String", side |-> "String", quantity |-> "Float64",
     price |-> "Float64", order_type |-> "String"]
OrdBuy ==
    [schema |-> OrderColumns,
     rows |-> <<[symbol |-> "AAPL", side |-> "buy", quantity |-> "10.0",
                 price |-> "null", order_type |-> "market"]>>]
OrdSell ==
    [schema |-> OrderColumns,
     rows |-> <<[symbol |-> "AAPL", side |-> "sell", quantity |-> "10.0",
                 price |-> "null", order_type |-> "market"]>>]
OrdEmpty == [schema |-> OrderColumns, rows |-> <<>>]
\* side outside {buy, sell}
OrdBadSide ==
    [schema |-> OrderColumns,
     rows |-> <<[symbol |-> "AAPL", side |-> "hold", quantity |-> "10.0",
                 price |-> "null", order_type |-> "market"]>>]

\* tables the user components may hand back
SignalOutputs == {SigGood, SigNoSymbol}
PortfolioOutputs == {PlanGood}
EntryOrderOutputs == {OrdBuy, OrdEmpty, OrdBadSide}
ExitOrderOutputs == {OrdSell, OrdEmpty}

\* the frame a data source returns for a window, the frame of positions
DataFrameOf(name, start, end) ==
    [schema |-> [datetime |-> "Datetime"], rows |-> <<>>,
     source |-> name, start |-> start, end |-> end]
PositionsFrame(p) ==
    [schema |-> [symbol |-> "String", quantity |-> "Float64", avg_price |-> "Float64"],
     rows |-> <<>>, version |-> p]

-----------------------------------------------------------------------------
(* Schema validators (qeel.schemas.validators): TRUE iff validate() returns *)

RequiredTyped(df, required) ==
    \A col \in DOMAIN required :
        /\ col \in DOMAIN df.schema
        /\ df.schema[col] = required[col]

SignalSchema_validate(df) ==
    RequiredTyped(df, [datetime |-> "Datetime", symbol |-> "String"])

PortfolioSchema_validate(df) ==
    RequiredTyped(df, [datetime |-> "Datetime", symbol |-> "String"])

OrderSchema_validate(df) ==
    /\ \A col \in DOMAIN OrderColumns :
          /\ col \in DOMAIN df.schema
          /\ col # "price" =>
                \A i \in 1 .. Len(df.rows) : df.rows[i][col] # "null"
    /\ {df.rows[i].side : i \in 1 .. Len(df.rows)} \subseteq {"buy", "sell"}
    /\ {df.rows[i].order_type : i \in 1 .. Len(df.rows)} \subseteq {"market", "limit"}

\* the schema of the artifact kind a frame is stored under
SchemaOf(component_name, df) ==
    CASE component_name = "signals" -> SignalSchema_validate(df)
      [] component_name = "portfolio_plan" -> PortfolioSchema_validate(df)
      [] component_name = "entry_orders" -> OrderSchema_validate(df)
      [] component_name = "exit_orders" -> OrderSchema_validate(df)

-----------------------------------------------------------------------------
(* Context (qeel.models.context) *)

Context(current_datetime, signals, portfolio_plan, entry_orders, exit_orders, current_positions) ==
    [current_datetime |-> current_datetime, signals |-> signals,
     portfolio_plan |-> portfolio_plan, entry_orders |-> entry_orders,
     exit_orders |-> exit_orders, current_positions |-> current_positions]

-----------------------------------------------------------------------------
(* IO layer (qeel.io): a dict from path to data *)

\* target_datetime.strftime("%Y-%m-%d"): the time of day is dropped
DateStr(target_datetime) == target_datetime \div HoursPerDay

\* <base>/YYYY/MM
get_partition_dir(target_datetime) == DateStr(target_datetime) \div DaysPerMonth

\* a path that leaves the date out of the file name
PathOf_undated(component_name, target_datetime) == <<0, component_name, 0>>

\* a path whose file name keeps the time of day
PathOf_timed(component_name, target_datetime) ==
    <<get_partition_dir(target_datetime), component_name, target_datetime>>

\* f"{partition_dir}/{component_name}_{date_str}.parquet"
PathOf(component_name, target_datetime) ==
    <<get_partition_dir(target_datetime), component_name, DateStr(target_datetime)>>

io_load(st, path) == IF path \in DOMAIN st THEN st[path] ELSE None

io_save(st, path, data) ==
    [p \in (DOMAIN st) \cup {path} |-> IF p = path THEN data ELSE st[p]]

io_exists(st, path) == path \in DOMAIN st

\* list_files(base_path, pattern=f"{component_name}_*.parquet"): every
\* file below the base path, in any partition, whose name matches
io_list_files(st, component_name) == {path \in DOMAIN st : path[2] = component_name}

-----------------------------------------------------------------------------
(* ContextStore *)

\* a save that drops the other artifacts of the date
ContextStore_save_component_only(st, target_datetime, data, component_name) ==
    LET path == PathOf(component_name, target_datetime)
        others == {PathOf(n, target_datetime) : n \in ComponentNames \ {component_name}}
    IN  [p \in ((DOMAIN st) \ others) \cup {path} |-> IF p = path THEN data ELSE st[p]]

ContextStore_save_component(st, target_datetime, data, component_name) ==
    io_save(st, PathOf(component_name, target_datetime), data)

\* a load that hands back the positions of the first load ever made
ContextStore_load_stale_positions(st, target_datetime, current_positions) ==
    LET signals == io_load(st, PathOf("signals", target_datetime))
        portfolio_plan == io_load(st, PathOf("portfolio_plan", target_datetime))
        entry_orders == io_load(st, PathOf("entry_orders", target_datetime))
        exit_orders == io_load(st, PathOf("exit_orders", target_datetime))
    IN  IF \A x \in {signals, portfolio_plan, entry_orders, exit_orders} : x = None
        THEN None
        ELSE Context(target_datetime, signals, portfolio_plan, entry_orders,
                     exit_orders,
                     IF current_positions = None
                     THEN None ELSE [current_positions EXCEPT !.version = 0])

\* the value load() returns once io.load and fetch_positions have returned
ContextStore_load(st, target_datetime, current_positions) ==
    LET signals == io_load(st, PathOf("signals", target_datetime))
        portfolio_plan == io_load(st, PathOf("portfolio_plan", target_datetime))
        entry_orders == io_load(st, PathOf("entry_orders", target_datetime))
        exit_orders == io_load(st, PathOf("exit_orders", target_datetime))
    IN  IF \A x \in {signals, portfolio_plan, entry_orders, exit_orders} : x = None
        THEN None
        ELSE Context(target_datetime, signals, portfolio_plan, entry_orders,
                     exit_orders, current_positions)

\* an exists that looks for the signals file only
ContextStore_exists_signals_only(st, target_datetime) ==
    io_exists(st, PathOf("signals", target_datetime))

ContextStore_exists(st, target_datetime) ==
    \E component_name \in ComponentNames :
        io_exists(st, PathOf(component_name, target_datetime))

\* datetime.strptime(date_str, "%Y-%m-%d"): midnight of the day
strptime(date_str) == date_str * HoursPerDay

Max(S) == CHOOSE x \in S : \A y \in S : y <= x

\* a search that takes the files of every kind
ContextStore_find_latest_datetime_any_kind(st) ==
    LET dates == {strptime(path[3]) : path \in DOMAIN st}
    IN  IF dates = {} THEN NoDatetime ELSE Max(dates)

\* the date of the newest signals file (NoDatetime for python None)
ContextStore_find_latest_datetime(st) ==
    LET files == io_list_files(st, "signals")
        dates == {strptime(path[3]) : path \in files}
    IN  IF dates = {} THEN NoDatetime ELSE Max(dates)

-----------------------------------------------------------------------------
(* InMemoryStore: keeps the latest frames only, no date partitioning *)

InMemoryStore_init ==
    [signals |-> None, portfolio_plan |-> None, entry_orders |-> None,
     exit_orders |-> None, current_datetime |-> NoDatetime]

InMemoryStore_save(m, target_datetime, data, component_name) ==
    [m EXCEPT ![component_name] = data, !.current_datetime = target_datetime]

\* target_datetime is ignored
InMemoryStore_load(m, target_datetime, current_positions) ==
    IF m.current_datetime = NoDatetime
    THEN None
    ELSE Context(m.current_datetime, m.signals, m.portfolio_plan,
                 m.entry_orders, m.exit_orders, current_positions)

InMemoryStore_exists(m, target_datetime) == m.current_datetime # NoDatetime

-----------------------------------------------------------------------------
(* The store an engine holds as self.context_store *)

StoreTypes == {"ContextStore", "InMemoryStore"}

\* does load() reach exchange_client.fetch_positions()
LoadFetchesPositions ==
    IF store_type = "ContextStore" THEN TRUE ELSE mem.current_datetime # NoDatetime

context_store_load(target_datetime, current_positions) ==
    IF store_type = "ContextStore"
    THEN ContextStore_load(storage, target_datetime, current_positions)
    ELSE InMemoryStore_load(mem, target_datetime, current_positions)

\* load_latest(exchange_client) of the store: None when nothing is stored,
\* else the load of the latest datetime
context_store_load_latest(current_positions) ==
    IF store_type = "ContextStore"
    THEN IF ContextStore_find_latest_datetime(storage) = NoDatetime
         THEN None
         ELSE ContextStore_load(storage, ContextStore_find_latest_datetime(storage),
                                current_positions)
    ELSE InMemoryStore_load(mem, NoDatetime, current_positions)

\* the artifact load() of a store in the given state hands back for a kind
\* and a date (None when absent)
StoredIn(type, st, m, component_name, target_datetime) ==
    LET c == IF type = "ContextStore"
             THEN ContextStore_load(st, target_datetime, None)
             ELSE InMemoryStore_load(m, target_datetime, None)
    IN  IF c = None THEN None ELSE c[component_name]

Stored(component_name, target_datetime) ==
    StoredIn(store_type, storage, mem, component_name, target_datetime)

-----------------------------------------------------------------------------
(* Configuration: config.data_sources in dict order, with offset_seconds   *)
(* and window_seconds counted in hours                                     *)

DataSourceNames == <<"ohlcv", "fundamentals">>
offset_seconds == [ohlcv |-> 0, fundamentals |-> 6]
window_seconds == [ohlcv |-> 48, fundamentals |-> 24]

\* a window that ends offset_seconds after the target
data_fetch_range_ahead(target_date, ds_config) ==
    LET offset == ds_config.offset_seconds
        window == ds_config.window_seconds
        end == target_date + offset
        start == end - window
    IN  <<start, end>>

\* _get_data_fetch_range(target_date, ds_config), in the unit both fields
\* of ds_config are counted in
data_fetch_range(target_date, ds_config) ==
    LET offset == ds_config.offset_seconds
        window == ds_config.window_seconds
        end == target_date - offset
        start == end - window
    IN  <<start, end>>

get_data_fetch_range(target_date, name) ==
    data_fetch_range(target_date, [offset_seconds |-> offset_seconds[name],
                                   window_seconds |-> window_seconds[name]])

\* ds.fetch(start, end, universe) of the named source for target_date
FetchOf(target_date, name) ==
    LET r == get_data_fetch_range(target_date, name)
    IN  DataFrameOf(name, r[1], r[2])

-----------------------------------------------------------------------------
(* Exceptions and the record of one run_step call *)

Exc(cls) == [cls |-> cls]

StrategyEngineError(message, step_name, target_date, original_error) ==
    [cls |-> "StrategyEngineError", message |-> message, step_name |-> step_name,
     target_date |-> target_date, original_error |-> original_error]

\* a StrategyEngineError a collaborator raises itself (say a component
\* that drives an engine of its own): it names the step and the date of
\* another run
OtherDatetime == NumDays * HoursPerDay
CollaboratorEngineError ==
    StrategyEngineError("raised_by_collaborator", CALCULATE_SIGNALS, OtherDatetime, None)

\* the exceptions a collaborator can raise
Exceptions(cls) == {Exc(cls), CollaboratorEngineError}

\* one call of a collaborator: where it was made from ("load" for calls of
\* load_context, "handler" for calls of the step handler), its arguments,
\* what it returned and the exception it raised (None for none)
Call(op, site, args, ret, exc) ==
    [op |-> op, site |-> site, args |-> args, ret |-> ret, exc |-> exc]

\* artifacts a context holds in memory
Held(c) == IF c = None THEN {} ELSE {n \in ComponentNames : c[n] # None}

NoCall ==
    [fresh |-> FALSE, target_date |-> NoDatetime, step_name |-> "none",
     error |-> None, calls |-> <<>>, held |-> {}, via |-> "none",
     step_names |-> <<>>, index |-> 0]

-----------------------------------------------------------------------------
(* Saving through self.context_store *)

StorageAfterSave(component_name, target_date, data) ==
    IF store_type = "ContextStore"
    THEN ContextStore_save_component(storage, target_date, data, component_name)
    ELSE storage

MemAfterSave(component_name, target_date, data) ==
    IF store_type = "InMemoryStore"
    THEN InMemoryStore_save(mem, target_date, data, component_name)
    ELSE mem

\* how a save_* call can end: None when it returns; io.save of a storage
\* backend can raise
SaveOutcomes ==
    IF store_type = "ContextStore" THEN {None, Exc("StorageError")} ELSE {None}

-----------------------------------------------------------------------------
(* What a run_step call leaves behind *)

\* the list of the run_steps call that made this run_step call and the
\* place of the step in it; a direct call counts as a list of one
StepList(s) == IF pending = None THEN <<s>> ELSE pending.step_names
StepIndex == IF pending = None THEN 1 ELSE pending.index

Outcome(T, s, error, calls, via) ==
    [fresh |-> ctx = None, target_date |-> T, step_name |-> s, error |-> error,
     calls |-> calls, held |-> Held(ctx), via |-> via,
     step_names |-> StepList(s), index |-> StepIndex]

\* an exit that, on an error, removes what the store holds for the date
Leave_rollback(T, s, c, error, calls, via) ==
    /\ ctx' = c
    /\ last' = Outcome(T, s, error, calls, via)
    /\ ncalls' = ncalls + 1
    /\ storage' = IF error = None
                  THEN storage
                  ELSE [path \in {q \in DOMAIN storage : q[3] # DateStr(T)} |-> storage[path]]
    /\ mem' = IF error = None THEN mem ELSE InMemoryStore_init
    /\ UNCHANGED <<store_type, positions, saved>>

\* the call returned or raised without touching the store or the exchange
Leave(T, s, c, error, calls, via) ==
    /\ ctx' = c
    /\ last' = Outcome(T, s, error, calls, via)
    /\ ncalls' = ncalls + 1
    /\ UNCHANGED <<store_type, storage, mem, positions, saved>>

\* the handler saved data as component_name and returned
LeaveSaved(T, s, c, calls, component_name, data, via) ==
    /\ ctx' = c
    /\ last' = Outcome(T, s, None, calls, via)
    /\ ncalls' = ncalls + 1
    /\ storage' = StorageAfterSave(component_name, T, data)
    /\ mem' = MemAfterSave(component_name, T, data)
    /\ saved' = saved \cup {<<component_name, DateStr(T)>>}
    /\ UNCHANGED <<store_type, positions>>

\* the handler submitted orders and returned
LeaveSubmitted(T, s, c, calls, via) ==
    /\ ctx' = c
    /\ last' = Outcome(T, s, None, calls, via)
    /\ ncalls' = ncalls + 1
    /\ positions' \in {positions, positions + 1}
    /\ UNCHANGED <<store_type, storage, mem, saved>>

\* a wrapper that always names the first step
WrappedError_first_step(step_name, target_date, exc) ==
    StrategyEngineError("step_failed", CALCULATE_SIGNALS, target_date, exc)

\* the except clauses of a handler: a StrategyEngineError is raised again
\* as it is, any other exception is wrapped
WrappedError(step_name, target_date, exc) ==
    IF exc.cls = "StrategyEngineError"
    THEN exc
    ELSE StrategyEngineError("step_failed", step_name, target_date, exc)

\* a prerequisite check made inside the try block, so that it is wrapped
PrerequisiteMissing_wrapped(step_name, target_date) ==
    StrategyEngineError("step_failed", step_name, target_date, Exc("ValueError"))

PrerequisiteMissing(step_name, target_date) ==
    StrategyEngineError("prerequisite_missing", step_name, target_date, None)

ContextNotInitialized(step_name, target_date) ==
    StrategyEngineError("context_not_initialized", step_name, target_date, None)

\* the save raised: io.save of the backend may or may not have written the
\* file by then (LocalIO writes the parquet file in place)
LeaveSaveRaised(T, s, c, calls, component_name, data, via, exc) ==
    /\ ctx' = c
    /\ last' = Outcome(T, s, WrappedError(s, T, exc), calls, via)
    /\ ncalls' = ncalls + 1
    /\ \E written \in BOOLEAN :
          IF written
          THEN /\ storage' = StorageAfterSave(component_name, T, data)
               /\ saved' = saved \cup {<<component_name, DateStr(T)>>}
          ELSE UNCHANGED <<storage, saved>>
    /\ UNCHANGED <<store_type, mem, positions>>

\* a producing handler from the component's return on:
\*   self._context.<component_name> = data
\*   self.context_store.save_<component_name>(target_date, data)
SetAndSave(T, s, c, calls, component_name, data, via) ==
    \E exc \in SaveOutcomes :
        LET c2 == [c EXCEPT ![component_name] = data]
            calls2 == calls \o <<Call("save", "handler", <<component_name, T, data>>,
                                      None, exc)>>
        IN  IF exc = None
            THEN LeaveSaved(T, s, c2, calls2, component_name, data, via)
            ELSE LeaveSaveRaised(T, s, c2, calls2, component_name, data, via, exc)

-----------------------------------------------------------------------------
(* Collaborators: each call either raises or returns *)

\* what a user component does: raise, or return one of its outputs
Results(outputs, cls) ==
    {[exc |-> e, value |-> None] : e \in Exceptions(cls)}
        \cup {[exc |-> None, value |-> o] : o \in outputs}

\* how a call that returns nothing of interest can end
Raises(cls) == {None} \cup Exceptions(cls)

\* exchange_client.fetch_positions()
FetchPositionsCall(site, exc) ==
    Call("fetch_positions", site, <<>>,
         IF exc = None THEN PositionsFrame(positions) ELSE None, exc)

\* ds.fetch of the first n data sources in dict order; the last of them
\* ends with exc
FetchCalls(target_date, n, exc) ==
    [i \in 1 .. n |->
        Call("fetch", "handler",
             <<DataSourceNames[i]>> \o get_data_fetch_range(target_date, DataSourceNames[i]),
             IF i = n /\ exc # None THEN None ELSE FetchOf(target_date, DataSourceNames[i]),
             IF i = n THEN exc ELSE None)]

\* data_dict of _fetch_data_sources
DataDict(target_date) ==
    [i \in 1 .. Len(DataSourceNames) |-> FetchOf(target_date, DataSourceNames[i])]

-----------------------------------------------------------------------------
(* Step handlers.  c is self._context when the handler starts, calls the   *)
(* collaborator calls run_step has made so far.                            *)

run_calculate_signals(T, c, calls, via) ==
    LET s == CALCULATE_SIGNALS
    IN  IF c = None
        THEN Leave(T, s, c, ContextNotInitialized(s, T), calls, via)
        ELSE \E failing \in 0 .. Len(DataSourceNames) :
               IF failing > 0
               THEN \E exc \in Exceptions("DataSourceError") :
                      Leave(T, s, c, WrappedError(s, T, exc),
                            calls \o FetchCalls(T, failing, exc), via)
               ELSE \E r \in Results(SignalOutputs, "CalculatorError") :
                      LET calls2 == calls \o FetchCalls(T, Len(DataSourceNames), None)
                                      \o <<Call("calculate", "handler", DataDict(T),
                                                r.value, r.exc)>>
                      IN  IF r.exc # None
                          THEN Leave(T, s, c, WrappedError(s, T, r.exc), calls2, via)
                          ELSE SetAndSave(T, s, c, calls2, "signals", r.value, via)

\* a handler that constructs a portfolio without looking for the signals
run_construct_portfolio_unchecked(T, c, calls, via) ==
    LET s == CONSTRUCT_PORTFOLIO
    IN  IF c = None
        THEN Leave(T, s, c, ContextNotInitialized(s, T), calls, via)
        ELSE \E r \in Results(PortfolioOutputs, "ConstructorError") :
               LET calls2 == calls \o <<FetchPositionsCall("handler", None),
                               Call("construct", "handler",
                                    <<c.signals, PositionsFrame(positions)>>,
                                    r.value, r.exc)>>
               IN  IF r.exc # None
                   THEN Leave(T, s, c, WrappedError(s, T, r.exc), calls2, via)
                   ELSE SetAndSave(T, s, c, calls2, "portfolio_plan", r.value, via)

run_construct_portfolio(T, c, calls, via) ==
    LET s == CONSTRUCT_PORTFOLIO
    IN  IF c = None
        THEN Leave(T, s, c, ContextNotInitialized(s, T), calls, via)
        ELSE IF c.signals = None
        THEN Leave(T, s, c, PrerequisiteMissing(s, T), calls, via)
        ELSE \E pos_exc \in Raises("ExchangeError") :
               IF pos_exc # None
               THEN Leave(T, s, c, WrappedError(s, T, pos_exc),
                          calls \o <<FetchPositionsCall("handler", pos_exc)>>, via)
               ELSE \E r \in Results(PortfolioOutputs, "ConstructorError") :
                      LET calls2 == calls \o <<FetchPositionsCall("handler", None),
                                      Call("construct", "handler",
                                           <<c.signals, PositionsFrame(positions)>>,
                                           r.value, r.exc)>>
                      IN  IF r.exc # None
                          THEN Leave(T, s, c, WrappedError(s, T, r.exc), calls2, via)
                          ELSE SetAndSave(T, s, c, calls2, "portfolio_plan",
                                          r.value, via)

\* fetch_positions, _fetch_ohlcv_for_step and the creator of an order step
CreateOrders(T, s, c, calls, op, inputs, outputs, component_name, via) ==
    \E pos_exc \in Raises("ExchangeError") :
        IF pos_exc # None
        THEN Leave(T, s, c, WrappedError(s, T, pos_exc),
                   calls \o <<FetchPositionsCall("handler", pos_exc)>>, via)
        ELSE \E ohlcv_exc \in Raises("DataSourceError") :
               IF ohlcv_exc # None
               THEN Leave(T, s, c, WrappedError(s, T, ohlcv_exc),
                          calls \o <<FetchPositionsCall("handler", None)>>
                                \o FetchCalls(T, 1, ohlcv_exc), via)
               ELSE \E r \in Results(outputs, "CreatorError") :
                      LET calls2 == calls \o <<FetchPositionsCall("handler", None)>>
                                      \o FetchCalls(T, 1, None)
                                      \o <<Call(op, "handler",
                                                inputs \o <<PositionsFrame(positions),
                                                            FetchOf(T, "ohlcv")>>,
                                                r.value, r.exc)>>
                      IN  IF r.exc # None
                          THEN Leave(T, s, c, WrappedError(s, T, r.exc), calls2, via)
                          ELSE SetAndSave(T, s, c, calls2, component_name, r.value, via)

run_create_entry_orders(T, c, calls, via) ==
    LET s == CREATE_ENTRY_ORDERS
    IN  IF c = None
        THEN Leave(T, s, c, ContextNotInitialized(s, T), calls, via)
        ELSE IF c.portfolio_plan = None
        THEN Leave(T, s, c, PrerequisiteMissing(s, T), calls, via)
        ELSE CreateOrders(T, s, c, calls, "create_entry", <<c.portfolio_plan>>,
                          EntryOrderOutputs, "entry_orders", via)

run_create_exit_orders(T, c, calls, via) ==
    LET s == CREATE_EXIT_ORDERS
    IN  IF c = None
        THEN Leave(T, s, c, ContextNotInitialized(s, T), calls, via)
        ELSE CreateOrders(T, s, c, calls, "create_exit", <<>>,
                          ExitOrderOutputs, "exit_orders", via)

\* how exchange_client.submit_orders(orders) can end: an exchange client
\* may raise anything; a MockExchangeClient raises the ValueError of its
\* validation and nothing else
SubmitRaises ==
    IF exchange = None THEN Raises("ExchangeError") ELSE {None, Exc("ValueError")}

\* a handler that submits whatever is stored, an empty table included
SubmitOrders_always(T, s, c, calls, orders, via) ==
    \E exc \in SubmitRaises :
        LET calls2 == calls \o <<Call("submit_orders", "handler", <<orders>>,
                                      None, exc)>>
        IN  IF exc = None
            THEN LeaveSubmitted(T, s, c, calls2, via)
            ELSE Leave(T, s, c, WrappedError(s, T, exc), calls2, via)

\* submit the orders when there are any
SubmitOrders(T, s, c, calls, orders, via) ==
    IF Height(orders) > 0
    THEN \E exc \in SubmitRaises :
           LET calls2 == calls \o <<Call("submit_orders", "handler", <<orders>>,
                                         None, exc)>>
           IN  IF exc = None
               THEN LeaveSubmitted(T, s, c, calls2, via)
               ELSE Leave(T, s, c, WrappedError(s, T, exc), calls2, via)
    ELSE Leave(T, s, c, None, calls, via)

run_submit_entry_orders(T, c, calls, via) ==
    LET s == SUBMIT_ENTRY_ORDERS
    IN  IF c = None
        THEN Leave(T, s, c, ContextNotInitialized(s, T), calls, via)
        ELSE IF c.entry_orders = None
        THEN Leave(T, s, c, PrerequisiteMissing(s, T), calls, via)
        ELSE SubmitOrders(T, s, c, calls, c.entry_orders, via)

run_submit_exit_orders(T, c, calls, via) ==
    LET s == SUBMIT_EXIT_ORDERS
    IN  IF c = None
        THEN Leave(T, s, c, ContextNotInitialized(s, T), calls, via)
        ELSE IF c.exit_orders = None
        THEN Leave(T, s, c, PrerequisiteMissing(s, T), calls, via)
        ELSE SubmitOrders(T, s, c, calls, c.exit_orders, via)

-----------------------------------------------------------------------------
(* run_step *)

\* load_context that never looks at what the store returned
load_context_always_new(target_date, loaded, now) ==
    Context(IF target_date # NoDatetime THEN target_date ELSE now,
            None, None, None, None, None)

\* load_context that keeps a context the engine already holds
load_context_keep(target_date, loaded, now) ==
    IF ctx # None
    THEN ctx
    ELSE IF loaded = None
         THEN Context(IF target_date # NoDatetime THEN target_date ELSE now,
                      None, None, None, None, None)
         ELSE loaded

\* load_context(target_date) once the store has returned loaded (from load,
\* or from load_latest when target_date is None): the value assigned to
\* self._context.  now is datetime.now(), read only when nothing was loaded
\* and target_date is None
load_context(target_date, loaded, now) ==
    IF loaded = None
    THEN Context(IF target_date # NoDatetime THEN target_date ELSE now,
                 None, None, None, None, None)
    ELSE loaded

\* how context_store.load can end: it returns, io.load raises, or
\* exchange_client.fetch_positions raises
LoadOutcomes ==
    {"ok"} \cup (IF store_type = "ContextStore" THEN {"io_raises"} ELSE {})
           \cup (IF LoadFetchesPositions THEN {"positions_raise"} ELSE {})

\* the calls of a context_store.load(target_date, exchange_client)
LoadCalls(target_date, ret, exc, positions_exc) ==
    <<Call("load", "load", <<target_date>>, ret, exc)>>
        \o (IF LoadFetchesPositions /\ (exc = None \/ positions_exc # None)
            THEN <<FetchPositionsCall("load", positions_exc)>> ELSE <<>>)

\* a check that lets every step name through
IsStepName_any(step_name) == TRUE

\* isinstance(step_name, StepName)
IsStepName(step_name) == step_name \in StepName

\* step_handlers.get(step_name) and the call of the handler; a name without
\* a handler is a ValueError
step_handlers(T, s, c, calls, via) ==
    CASE s = CALCULATE_SIGNALS -> run_calculate_signals(T, c, calls, via)
      [] s = CONSTRUCT_PORTFOLIO -> run_construct_portfolio(T, c, calls, via)
      [] s = CREATE_ENTRY_ORDERS -> run_create_entry_orders(T, c, calls, via)
      [] s = CREATE_EXIT_ORDERS -> run_create_exit_orders(T, c, calls, via)
      [] s = SUBMIT_ENTRY_ORDERS -> run_submit_entry_orders(T, c, calls, via)
      [] s = SUBMIT_EXIT_ORDERS -> run_submit_exit_orders(T, c, calls, via)
      [] OTHER -> Leave(T, s, c, Exc("ValueError"), calls, via)

\* a run_step that leaves the loaded context stamped as the store returned it
run_step_keep_stamp(T, s, via) ==
    /\ ncalls < MaxCalls
    /\ IF ~IsStepName(s)
       THEN Leave(T, s, ctx, Exc("ValueError"), <<>>, via)
       ELSE
       \E outcome \in LoadOutcomes :
          CASE outcome = "io_raises" ->
                 Leave(T, s, ctx, Exc("StorageError"),
                       LoadCalls(T, None, Exc("StorageError"), None), via)
            [] outcome = "positions_raise" ->
                 \E exc \in Exceptions("ExchangeError") :
                     Leave(T, s, ctx, exc, LoadCalls(T, None, exc, exc), via)
            [] outcome = "ok" ->
                 LET loaded == context_store_load(T, PositionsFrame(positions))
                     context == load_context(T, loaded, NoDatetime)
                     c == context
                 IN  step_handlers(T, s, c, LoadCalls(T, loaded, None, None), via)

run_step(T, s, via) ==
    /\ ncalls < MaxCalls
    /\ IF ~IsStepName(s)
       THEN Leave(T, s, ctx, Exc("ValueError"), <<>>, via)
       ELSE
       \E outcome \in LoadOutcomes :
          CASE outcome = "io_raises" ->
                 Leave(T, s, ctx, Exc("StorageError"),
                       LoadCalls(T, None, Exc("StorageError"), None), via)
            [] outcome = "positions_raise" ->
                 \E exc \in Exceptions("ExchangeError") :
                     Leave(T, s, ctx, exc, LoadCalls(T, None, exc, exc), via)
            [] outcome = "ok" ->
                 LET loaded == context_store_load(T, PositionsFrame(positions))
                     context == load_context(T, loaded, NoDatetime)
                     c == [context EXCEPT !.current_datetime = T]
                 IN  step_handlers(T, s, c, LoadCalls(T, loaded, None, None), via)

-----------------------------------------------------------------------------
(* Specification *)

NoReplay == [phase |-> "idle"]

Init ==
    /\ store_type \in StoreTypes
    /\ storage = <<>>
    /\ mem = InMemoryStore_init
    /\ ctx = None
    /\ positions = 0
    /\ pending = None
    /\ saved = {}
    /\ last = NoCall
    /\ ncalls = 0
    /\ replay = NoReplay
    /\ procs = <<>>
    /\ exchange = None
    /\ engine = None

RunStep ==
    /\ pending = None
    /\ last = NoCall
    /\ \E T \in Datetimes, s \in StepNameArgs : run_step(T, s, "run_step")
    /\ UNCHANGED <<pending, replay, procs, exchange, engine>>

\* the values datetime.now() is drawn from: the last target datetime and
\* the midnight after it
Clock == {(FirstDay + NumDays - 1) * HoursPerDay + 15, (FirstDay + NumDays) * HoursPerDay}

\* engine.load_context(target_date) called directly, target_date None
\* included: self._context is replaced by what the store returns or by a
\* new Context; a call that raises leaves the engine as it was
LoadContext ==
    /\ pending = None
    /\ last = NoCall
    /\ \E target_date \in Datetimes \cup {NoDatetime}, now \in Clock :
          LET current_positions == PositionsFrame(positions)
              loaded == IF target_date # NoDatetime
                        THEN context_store_load(target_date, current_positions)
                        ELSE context_store_load_latest(current_positions)
          IN  ctx' = load_context(target_date, loaded, now)
    /\ UNCHANGED <<store_type, storage, mem, positions, pending, saved, last, ncalls,
                   replay, procs, exchange, engine>>

\* StrategyEngine(...) is constructed again over the same store and
\* collaborators (another process takes over): _context starts as None
NewEngine ==
    /\ pending = None
    /\ last = NoCall
    /\ ctx # None
    /\ ctx' = None
    /\ UNCHANGED <<store_type, storage, mem, positions, pending, saved, last, ncalls,
                   replay, procs, exchange, engine>>

\* the caller of run_step or run_steps takes the return or the exception
Return ==
    /\ pending = None
    /\ last # NoCall
    /\ last' = NoCall
    /\ UNCHANGED <<store_type, storage, mem, ctx, positions, pending, saved, ncalls,
                   replay, procs, exchange, engine>>

Next == RunStep \/ LoadContext \/ NewEngine \/ Return

Spec == Init /\ [][Next]_vars

-----------------------------------------------------------------------------
(* run_steps: for step_name in step_names: self.run_step(...) *)

\* the non-empty lists of at most n step names
StepLists(n) ==
    UNION {[1 .. k -> StepNameArgs] : k \in 1 .. n}

\* run_steps(T, step_names) is called (an empty list would return at once)
RunStepsCall ==
    /\ pending = None
    /\ last = NoCall
    /\ ncalls < MaxLoopCalls
    /\ \E T \in Datetimes, step_names \in StepLists(MaxListLen) :
          /\ ncalls + Len(step_names) <= MaxLoopCalls
          /\ pending' = [target_date |-> T, step_names |-> step_names, index |-> 1]
    /\ UNCHANGED <<store_type, storage, mem, ctx, positions, saved, last, ncalls,
                   replay, procs, exchange, engine>>

\* a loop that goes on to the next name after an exception
AfterStep_swallow(p, error) ==
    IF p.index < Len(p.step_names)
    THEN [p EXCEPT !.index = @ + 1]
    ELSE None

\* the loop after a run_step that ended with error: an exception leaves
\* run_steps, so does the end of the list, otherwise the next name is due
AfterStep(p, error) ==
    IF error = None /\ p.index < Len(p.step_names)
    THEN [p EXCEPT !.index = @ + 1]
    ELSE None

\* one pass of the loop
RunStepsIterate ==
    /\ pending # None
    /\ last.error = None
    /\ run_step(pending.target_date, pending.step_names[pending.index], "run_steps")
    /\ pending' = AfterStep(pending, last'.error)
    /\ UNCHANGED <<replay, procs, exchange, engine>>

NextRunSteps == RunStepsCall \/ RunStepsIterate \/ NewEngine \/ Return

SpecRunSteps == Init /\ [][NextRunSteps]_vars

-----------------------------------------------------------------------------
(* One step list run twice from the same store and exchange: first by one  *)
(* long-lived engine through run_steps, then by a newly constructed engine *)
(* per step, the collaborators answering the second time as they did the   *)
(* first time.                                                             *)

\* run_steps(T, step_names) is called on the engine in use
EquivCall ==
    /\ pending = None
    /\ last = NoCall
    /\ replay.phase = "idle"
    /\ ncalls < MaxLoopCalls
    /\ \E T \in Datetimes, step_names \in StepLists(MaxListLen) :
          /\ ncalls + Len(step_names) <= MaxLoopCalls
          /\ pending' = [target_date |-> T, step_names |-> step_names, index |-> 1]
    /\ replay' = [phase |-> "single", storage |-> storage, mem |-> mem,
                  positions |-> positions, saved |-> saved, ncalls |-> ncalls,
                  trace |-> <<>>]
    /\ UNCHANGED <<store_type, storage, mem, ctx, positions, saved, last, ncalls,
                   procs, exchange, engine>>

\* one pass of the loop of run_steps; what the step did is kept
EquivSingleStep ==
    /\ replay.phase = "single"
    /\ run_step(pending.target_date, pending.step_names[pending.index], "run_steps")
    /\ LET after == AfterStep(pending, last'.error)
           done == [calls |-> last'.calls, error |-> last'.error,
                    storage |-> storage', mem |-> mem', positions |-> positions',
                    wrote |-> storage' # storage]
       IN  /\ pending' = IF after = None THEN pending ELSE after
           /\ replay' = [replay EXCEPT !.trace = Append(@, done),
                                       !.phase = IF after = None THEN "single_done"
                                                 ELSE "single"]
    /\ UNCHANGED <<procs, exchange, engine>>

\* the store and the exchange are put back to where run_steps started
EquivRestart ==
    /\ replay.phase = "single_done"
    /\ storage' = replay.storage
    /\ mem' = replay.mem
    /\ positions' = replay.positions
    /\ saved' = replay.saved
    /\ ncalls' = replay.ncalls
    /\ ctx' = None
    /\ last' = NoCall
    /\ pending' = [pending EXCEPT !.index = 1]
    /\ replay' = [replay EXCEPT !.phase = "multi"]
    /\ UNCHANGED <<store_type, procs, exchange, engine>>

\* a collaborator asked the same question as the first time (the calls
\* before it being the same) gives the same answer; what load returns is
\* the store's doing, not a collaborator's answer
SameResponses(calls2, calls1) ==
    \A k \in (DOMAIN calls2) \cap (DOMAIN calls1) :
        (/\ \A j \in 1 .. (k - 1) : calls2[j] = calls1[j]
         /\ calls2[k].op = calls1[k].op
         /\ calls2[k].site = calls1[k].site
         /\ calls2[k].args = calls1[k].args)
        => /\ calls2[k].exc = calls1[k].exc
           /\ calls2[k].op # "load" => calls2[k].ret = calls1[k].ret

\* a save that raises has or has not written, as it did the first time
SameWrite(calls2, done) ==
    LET c == calls2[Len(calls2)]
    IN  (calls2 # <<>> /\ c.op = "save" /\ c.exc # None) =>
            storage' = IF done.wrote
                       THEN StorageAfterSave(c.args[1], c.args[2], c.args[3])
                       ELSE storage

\* the next step of the list is run by a newly constructed engine; the
\* scheduler goes no further than run_steps went
EquivProcessStep ==
    /\ replay.phase = "multi"
    /\ ctx = None
    /\ run_step(pending.target_date, pending.step_names[pending.index], "process")
    /\ SameResponses(last'.calls, replay.trace[pending.index].calls)
    /\ SameWrite(last'.calls, replay.trace[pending.index])
    /\ positions' = replay.trace[pending.index].positions
    /\ pending' = [pending EXCEPT !.index = @ + 1]
    /\ replay' = [replay EXCEPT !.phase = IF pending.index = Len(replay.trace)
                                          THEN "done" ELSE "multi"]
    /\ UNCHANGED <<procs, exchange, engine>>

\* the process of the step just run is gone, the next one starts
EquivNewProcess ==
    /\ replay.phase = "multi"
    /\ ctx # None
    /\ ctx' = None
    /\ last' = NoCall
    /\ UNCHANGED <<store_type, storage, mem, positions, pending, saved, ncalls,
                   replay, procs, exchange, engine>>

\* a run_step call made on the engine before run_steps is called
EquivEarlier ==
    /\ ncalls + 1 < MaxLoopCalls
    /\ RunStep

NextEquiv ==
    \/ EquivEarlier \/ NewEngine \/ Return
    \/ EquivCall \/ EquivSingleStep \/ EquivRestart
    \/ EquivProcessStep \/ EquivNewProcess

SpecEquiv == Init /\ [][NextEquiv]_vars

-----------------------------------------------------------------------------------------------------------------------------------------------------
(* Processes that share one ContextStore and one exchange, one process per *)
(* day, each running run_step calls for datetimes of its own day.  A call  *)
(* is a sequence of steps, one for each call run_step makes on the store   *)
(* or the exchange, and the steps of the processes interleave.  Beside the *)
(* shared store, replay keeps for each process the store of the run of its *)
(* calls alone: the same calls with the same collaborator answers, made on *)
(* a store that no other process touches.                                  *)

\* two processes, the first on the first day, the second on the day after
Procs == {1, 2}

\* the datetimes process p works on
DatetimesOf(p) == {T \in Datetimes : DateStr(T) = FirstDay + p - 1}

\* a process between two run_step calls.  In a call: read are the files
\* io.load has returned so far and context is self._context, with
\* solo_read and solo_context their counterparts in the run alone;
\* current_positions is the local variable positions of the handler and
\* component the artifact the handler is about to save
Idle ==
    [pc |-> "idle", target_date |-> NoDatetime, step_name |-> "none",
     nread |-> 0, read |-> <<>>, solo_read |-> <<>>,
     context |-> None, solo_context |-> None,
     current_positions |-> None, component |-> "none", calls |-> <<>>]

InitParallel ==
    /\ store_type = "ContextStore"
    /\ storage = <<>>
    /\ mem = InMemoryStore_init
    /\ ctx = None
    /\ positions = 0
    /\ pending = None
    /\ saved = {}
    /\ last = NoCall
    /\ ncalls = 0
    /\ replay = [phase |-> "parallel",
                 storage |-> [p \in Procs |-> <<>>],
                 paths |-> [p \in Procs |-> {}],
                 agree |-> TRUE]
    /\ procs = [p \in Procs |-> Idle]
    /\ exchange = None
    /\ engine = None

\* the order in which ContextStore.load reads the files of a date
LoadOrder == <<"signals", "portfolio_plan", "entry_orders", "exit_orders">>

\* the check a handler makes before its try block: the artifact the step
\* consumes has to be in the context
PrerequisiteError(s, T, c) ==
    CASE s = CONSTRUCT_PORTFOLIO /\ c.signals = None -> PrerequisiteMissing(s, T)
      [] s = CREATE_ENTRY_ORDERS /\ c.portfolio_plan = None -> PrerequisiteMissing(s, T)
      [] s = SUBMIT_ENTRY_ORDERS /\ c.entry_orders = None -> PrerequisiteMissing(s, T)
      [] s = SUBMIT_EXIT_ORDERS /\ c.exit_orders = None -> PrerequisiteMissing(s, T)
      [] OTHER -> None

\* the run_step call of process p returns or raises; each call is made by
\* an engine of its own process, which holds no context of another call
ParLeave(p, error, calls) ==
    /\ last = NoCall
    /\ last' = Outcome(procs[p].target_date, procs[p].step_name, error, calls, "process")
    /\ ncalls' = ncalls + 1
    /\ procs' = [procs EXCEPT ![p] = Idle]

\* run_step(target_date, step_name) is called in process p
ParBegin(p) ==
    /\ procs[p].pc = "idle"
    /\ ncalls + Cardinality({q \in Procs : procs[q].pc # "idle"}) < MaxCalls
    /\ \E T \in DatetimesOf(p), s \in StepName :
          /\ IsStepName(s)
          /\ procs' = [procs EXCEPT ![p] =
                          [Idle EXCEPT !.pc = "load", !.target_date = T, !.step_name = s]]
    /\ UNCHANGED <<store_type, storage, mem, ctx, positions, pending, saved, last,
                   ncalls, replay, exchange, engine>>

\* one self.io.load of ContextStore.load: the next file of the date is read
\* from the shared store, or the backend raises
ParRead(p) ==
    /\ procs[p].pc = "load"
    /\ LET T == procs[p].target_date
           k == procs[p].nread + 1
           path == PathOf(LoadOrder[k], T)
           data == io_load(storage, path)
           solo_data == io_load(replay.storage[p], path)
       IN  \E exc \in {None, Exc("StorageError")} :
              IF exc # None
              THEN /\ ParLeave(p, exc, LoadCalls(T, None, exc, None))
                   /\ replay' = replay
              ELSE /\ procs' = [procs EXCEPT
                          ![p].nread = k,
                          ![p].read = IF data = None THEN @ ELSE io_save(@, path, data),
                          ![p].solo_read = IF solo_data = None
                                           THEN @ ELSE io_save(@, path, solo_data),
                          ![p].pc = IF k = Len(LoadOrder) THEN "load_positions" ELSE "load"]
                   /\ replay' = [replay EXCEPT !.paths[p] = @ \cup {path}]
                   /\ UNCHANGED <<last, ncalls>>
    /\ UNCHANGED <<store_type, storage, mem, ctx, positions, pending, saved,
                   exchange, engine>>

\* exchange_client.fetch_positions() of ContextStore.load, the return of
\* load, and in run_step the assignment of self._context and of its
\* current_datetime
ParLoadPositions(p) ==
    /\ procs[p].pc = "load_positions"
    /\ LET T == procs[p].target_date
       IN  \E exc \in Raises("ExchangeError") :
              IF exc # None
              THEN ParLeave(p, exc, LoadCalls(T, None, exc, exc))
              ELSE LET loaded == ContextStore_load(procs[p].read, T,
                                                   PositionsFrame(positions))
                       solo_loaded == ContextStore_load(procs[p].solo_read, T,
                                                        PositionsFrame(positions))
                       context == load_context(T, loaded, NoDatetime)
                       solo_context == load_context(T, solo_loaded, NoDatetime)
                   IN  /\ procs' = [procs EXCEPT
                              ![p].pc = "handler",
                              ![p].context = [context EXCEPT !.current_datetime = T],
                              ![p].solo_context =
                                  [solo_context EXCEPT !.current_datetime = T],
                              ![p].calls = LoadCalls(T, loaded, None, None)]
                       /\ UNCHANGED <<last, ncalls>>
    /\ UNCHANGED <<store_type, storage, mem, ctx, positions, pending, saved,
                   replay, exchange, engine>>

\* the start of a handler that takes the positions: the prerequisite check
\* and positions = self.exchange_client.fetch_positions()
ParFetchPositions(p) ==
    /\ procs[p].pc = "handler"
    /\ procs[p].step_name
           \in {CONSTRUCT_PORTFOLIO, CREATE_ENTRY_ORDERS, CREATE_EXIT_ORDERS}
    /\ LET T == procs[p].target_date
           s == procs[p].step_name
           error == PrerequisiteError(s, T, procs[p].context)
           solo_error == PrerequisiteError(s, T, procs[p].solo_context)
       IN  /\ replay' = [replay EXCEPT !.agree = @ /\ solo_error = error]
           /\ IF error # None
              THEN ParLeave(p, error, procs[p].calls)
              ELSE \E exc \in Raises("ExchangeError") :
                     IF exc # None
                     THEN ParLeave(p, WrappedError(s, T, exc),
                                   procs[p].calls \o <<FetchPositionsCall("handler", exc)>>)
                     ELSE /\ procs' = [procs EXCEPT
                                 ![p].pc = "component",
                                 ![p].current_positions = PositionsFrame(positions),
                                 ![p].calls = @ \o <<FetchPositionsCall("handler", None)>>]
                          /\ UNCHANGED <<last, ncalls>>
    /\ UNCHANGED <<store_type, storage, mem, ctx, positions, pending, saved,
                   exchange, engine>>

\* the call of the user component of a producing handler and the assignment
\* of what it returned to the context
ParComponent(p, calls, op, args, outputs, cls, component_name) ==
    \E r \in Results(outputs, cls) :
        LET calls2 == calls \o <<Call(op, "handler", args, r.value, r.exc)>>
        IN  IF r.exc # None
            THEN ParLeave(p, WrappedError(procs[p].step_name, procs[p].target_date, r.exc),
                          calls2)
            ELSE /\ procs' = [procs EXCEPT
                        ![p].pc = "save",
                        ![p].component = component_name,
                        ![p].context[component_name] = r.value,
                        ![p].solo_context[component_name] = r.value,
                        ![p].calls = calls2]
                 /\ UNCHANGED <<last, ncalls>>

\* a producing handler between the positions and the save: the data
\* sources are fetched and the component is called
ParCompute(p) ==
    /\ \/ procs[p].pc = "component"
       \/ procs[p].pc = "handler" /\ procs[p].step_name = CALCULATE_SIGNALS
    /\ LET T == procs[p].target_date
           s == procs[p].step_name
           c == procs[p].context
           calls == procs[p].calls
       IN  CASE s = CALCULATE_SIGNALS ->
                  \E failing \in 0 .. Len(DataSourceNames) :
                     IF failing > 0
                     THEN \E exc \in Exceptions("DataSourceError") :
                            ParLeave(p, WrappedError(s, T, exc),
                                     calls \o FetchCalls(T, failing, exc))
                     ELSE ParComponent(p, calls \o FetchCalls(T, Len(DataSourceNames), None),
                                       "calculate", DataDict(T),
                                       SignalOutputs, "CalculatorError", "signals")
             [] s = CONSTRUCT_PORTFOLIO ->
                  ParComponent(p, calls, "construct",
                               <<c.signals, procs[p].current_positions>>,
                               PortfolioOutputs, "ConstructorError", "portfolio_plan")
             [] s \in {CREATE_ENTRY_ORDERS, CREATE_EXIT_ORDERS} ->
                  \E ohlcv_exc \in Raises("DataSourceError") :
                     IF ohlcv_exc # None
                     THEN ParLeave(p, WrappedError(s, T, ohlcv_exc),
                                   calls \o FetchCalls(T, 1, ohlcv_exc))
                     ELSE IF s = CREATE_ENTRY_ORDERS
                          THEN ParComponent(p, calls \o FetchCalls(T, 1, None),
                                   "create_entry",
                                   <<c.portfolio_plan, procs[p].current_positions,
                                     FetchOf(T, "ohlcv")>>,
                                   EntryOrderOutputs, "CreatorError", "entry_orders")
                          ELSE ParComponent(p, calls \o FetchCalls(T, 1, None),
                                   "create_exit",
                                   <<procs[p].current_positions, FetchOf(T, "ohlcv")>>,
                                   ExitOrderOutputs, "CreatorError", "exit_orders")
    /\ UNCHANGED <<store_type, storage, mem, ctx, positions, pending, saved,
                   replay, exchange, engine>>

\* self.context_store.save_<component>(target_date, data) of a producing
\* handler: the file of the date is written to the shared store, or the
\* backend raises, having written the file or not
ParSave(p) ==
    /\ procs[p].pc = "save"
    /\ LET T == procs[p].target_date
           s == procs[p].step_name
           name == procs[p].component
           data == procs[p].context[name]
           solo_data == procs[p].solo_context[name]
       IN  \E exc \in SaveOutcomes :
           \E written \in (IF exc = None THEN {TRUE} ELSE BOOLEAN) :
              /\ storage' = IF written THEN StorageAfterSave(name, T, data) ELSE storage
              /\ saved' = IF written THEN saved \cup {<<name, DateStr(T)>>} ELSE saved
              /\ replay' = [replay EXCEPT
                     !.storage[p] = IF written
                                    THEN ContextStore_save_component(@, T, solo_data, name)
                                    ELSE @,
                     !.paths[p] = @ \cup {PathOf(name, T)}]
              /\ ParLeave(p, IF exc = None THEN None ELSE WrappedError(s, T, exc),
                          procs[p].calls
                              \o <<Call("save", "handler", <<name, T, data>>, None, exc)>>)
    /\ UNCHANGED <<store_type, mem, ctx, positions, pending, exchange, engine>>

\* a submitting handler: the prerequisite check, and
\* self.exchange_client.submit_orders(orders) when there are orders
ParSubmit(p) ==
    /\ procs[p].pc = "handler"
    /\ procs[p].step_name \in {SUBMIT_ENTRY_ORDERS, SUBMIT_EXIT_ORDERS}
    /\ LET T == procs[p].target_date
           s == procs[p].step_name
           name == IF s = SUBMIT_ENTRY_ORDERS THEN "entry_orders" ELSE "exit_orders"
           error == PrerequisiteError(s, T, procs[p].context)
           solo_error == PrerequisiteError(s, T, procs[p].solo_context)
           orders == procs[p].context[name]
           solo_orders == procs[p].solo_context[name]
       IN  IF error # None
           THEN /\ replay' = [replay EXCEPT !.agree = @ /\ solo_error = error]
                /\ positions' = positions
                /\ ParLeave(p, error, procs[p].calls)
           ELSE /\ replay' = [replay EXCEPT
                       !.agree = @ /\ solo_error = None /\ solo_orders = orders]
                /\ IF Height(orders) > 0
                   THEN \E exc \in SubmitRaises :
                          LET calls2 == procs[p].calls
                                  \o <<Call("submit_orders", "handler", <<orders>>,
                                            None, exc)>>
                          IN  IF exc = None
                              THEN /\ positions' \in {positions, positions + 1}
                                   /\ ParLeave(p, None, calls2)
                              ELSE /\ positions' = positions
                                   /\ ParLeave(p, WrappedError(s, T, exc), calls2)
                   ELSE /\ positions' = positions
                        /\ ParLeave(p, None, procs[p].calls)
    /\ UNCHANGED <<store_type, storage, mem, ctx, pending, saved, exchange, engine>>

NextParallel ==
    \/ \E p \in Procs :
          \/ ParBegin(p) \/ ParRead(p) \/ ParLoadPositions(p)
          \/ ParFetchPositions(p) \/ ParCompute(p) \/ ParSave(p) \/ ParSubmit(p)
    \/ Return

SpecParallel == InitParallel /\ [][NextParallel]_vars

-----------------------------------------------------------------------------
(* The store called directly: save_*, load, load_latest, exists *)

\* the tables a caller may hand to save_<component_name>
StoreTables(component_name) ==
    CASE component_name = "signals" -> SignalOutputs
      [] component_name = "portfolio_plan" -> PortfolioOutputs
      [] component_name = "entry_orders" -> EntryOrderOutputs
      [] component_name = "exit_orders" -> ExitOrderOutputs

\* the record of one direct call of a store operation
StoreCall(op, target_datetime, calls, error) ==
    [NoCall EXCEPT !.via = op, !.target_date = target_datetime,
                   !.calls = calls, !.error = error]

\* save_signals / save_portfolio_plan / save_entry_orders / save_exit_orders
StoreSave ==
    /\ pending = None
    /\ last = NoCall
    /\ ncalls < MaxStoreOps
    /\ \E component_name \in ComponentNames, T \in Datetimes :
          \E data \in StoreTables(component_name), exc \in SaveOutcomes :
              /\ last' = StoreCall("save", T,
                                   <<Call("save", "store", <<component_name, T, data>>,
                                          None, exc)>>, exc)
              /\ IF exc = None
                 THEN /\ storage' = StorageAfterSave(component_name, T, data)
                      /\ mem' = MemAfterSave(component_name, T, data)
                      /\ saved' = saved \cup {<<component_name, DateStr(T)>>}
                 ELSE /\ mem' = mem
                      /\ \E written \in BOOLEAN :
                            IF written
                            THEN /\ storage' = StorageAfterSave(component_name, T, data)
                                 /\ saved' = saved \cup {<<component_name, DateStr(T)>>}
                            ELSE UNCHANGED <<storage, saved>>
    /\ ncalls' = ncalls + 1
    /\ UNCHANGED <<store_type, ctx, positions, pending, replay, procs, exchange, engine>>

\* the record of a load of target_datetime made as operation op
StoreLoadCall(op, args, target_datetime, outcome, exc) ==
    CASE outcome = "io_raises" ->
           StoreCall(op, target_datetime,
                     <<Call(op, "store", args, None, Exc("StorageError"))>>,
                     Exc("StorageError"))
      [] outcome = "positions_raise" ->
           StoreCall(op, target_datetime,
                     <<Call(op, "store", args, None, exc),
                       FetchPositionsCall("store", exc)>>, exc)
      [] outcome = "ok" ->
           StoreCall(op, target_datetime,
                     <<Call(op, "store", args,
                            context_store_load(target_datetime, PositionsFrame(positions)),
                            None)>>
                       \o (IF LoadFetchesPositions
                           THEN <<FetchPositionsCall("store", None)>> ELSE <<>>),
                     None)

\* load(target_datetime, exchange_client)
StoreLoad ==
    /\ pending = None
    /\ last = NoCall
    /\ ncalls < MaxStoreOps
    /\ \E T \in Datetimes, outcome \in LoadOutcomes, exc \in Exceptions("ExchangeError") :
          last' = StoreLoadCall("load", <<T>>, T, outcome, exc)
    /\ ncalls' = ncalls + 1
    /\ UNCHANGED <<store_type, storage, mem, ctx, positions, pending, saved,
                   replay, procs, exchange, engine>>

\* the datetime load_latest goes on to load (NoDatetime: nothing is stored)
LatestDatetime ==
    IF store_type = "ContextStore"
    THEN ContextStore_find_latest_datetime(storage)
    ELSE mem.current_datetime

\* load_latest(exchange_client): io.list_files of _find_latest_datetime is
\* called first and can raise whatever is stored; with no signals file
\* load_latest returns None, else it goes on to load
StoreLoadLatest ==
    /\ pending = None
    /\ last = NoCall
    /\ ncalls < MaxStoreOps
    /\ IF LatestDatetime = NoDatetime
       THEN \E exc \in (IF store_type = "ContextStore"
                         THEN {None, Exc("StorageError")} ELSE {None}) :
              last' = StoreCall("load_latest", NoDatetime,
                                <<Call("load_latest", "store", <<>>, None, exc)>>, exc)
       ELSE \E outcome \in LoadOutcomes, exc \in Exceptions("ExchangeError") :
              last' = StoreLoadCall("load_latest", <<>>, LatestDatetime, outcome, exc)
    /\ ncalls' = ncalls + 1
    /\ UNCHANGED <<store_type, storage, mem, ctx, positions, pending, saved,
                   replay, procs, exchange, engine>>

context_store_exists(target_datetime) ==
    IF store_type = "ContextStore"
    THEN ContextStore_exists(storage, target_datetime)
    ELSE InMemoryStore_exists(mem, target_datetime)

\* exists(target_datetime)
StoreExists ==
    /\ pending = None
    /\ last = NoCall
    /\ ncalls < MaxStoreOps
    /\ \E T \in Datetimes :
          last' = StoreCall("exists", T,
                            <<Call("exists", "store", <<T>>,
                                   context_store_exists(T), None)>>, None)
    /\ ncalls' = ncalls + 1
    /\ UNCHANGED <<store_type, storage, mem, ctx, positions, pending, saved,
                   replay, procs, exchange, engine>>

NextStore == StoreSave \/ StoreLoad \/ StoreLoadLatest \/ StoreExists \/ Return

SpecStore == Init /\ [][NextStore]_vars

-----------------------------------------------------------------------------
(* MockExchangeClient: a cost configuration, the OHLCV cache, the          *)
(* current_datetime cursor and the fill history.  Prices and quantities    *)
(* are whole numbers, chosen so that the arithmetic of the code is exact   *)
(* on them.                                                                *)

\* python None where a float is expected (a null price)
NullFloat == -1

\* orders.to_dicts(): the rows of an order table with their Float64 cells
\* as python values
to_dicts(orders) ==
    LET float(cell) ==
            CASE cell = "null" -> NullFloat
              [] cell = "10.0" -> 10
              [] cell = "20.0" -> 20
              [] cell = "700.0" -> 700
              [] cell = "800.0" -> 800
    IN [i \in 1 .. Len(orders.rows) |->
           [orders.rows[i] EXCEPT !.quantity = float(@), !.price = float(@)]]

\* the rows the OHLCV data source holds: one bar per symbol and datetime,
\* every price of every bar different, GOOG traded on even datetimes only
OhlcvSource ==
    LET Bar(symbol, t) ==
            [symbol |-> symbol, datetime |-> t, open |-> 400 * t + 100,
             high |-> 400 * t + 300, low |-> 400 * t, close |-> 400 * t + 200]
    IN {Bar("AAPL", t) : t \in 1 .. MaxBars}
           \cup {Bar("GOOG", t) : t \in {u \in 1 .. MaxBars : u % 2 = 0}}

\* the order tables handed to submit_orders: market orders without a price,
\* limit orders without one and at the high of the first bar and the low of
\* the second, and a table with an invalid side
OrderBatches ==
    LET Rows == [symbol : {"AAPL", "GOOG"}, side : {"buy", "sell"},
                 quantity : {"10.0"}, price : {"null"}, order_type : {"market"}]
                \cup [symbol : {"AAPL", "GOOG"}, side : {"buy", "sell"},
                      quantity : {"10.0"},
                      price : {"null", "700.0", "800.0"},
                      order_type : {"limit"}]
    IN {[schema |-> OrderColumns, rows |-> rows] :
           rows \in UNION {[1 .. n -> Rows] : n \in 0 .. MaxOrders}}
         \cup {OrdBadSide}

CostConfigs ==
    [commission_rate : {0, 1}, slippage_bps : {0, 100},
     market_fill_price_type : {"next_open", "current_close"},
     limit_fill_bar_type : {"next_bar", "current_bar"}]

\* MockExchangeClient(config, ohlcv_data_source)
MockExchangeClient(config) ==
    [config |-> config, ohlcv_cache |-> None, current_datetime |-> NoDatetime,
     fill_history |-> <<>>]

\* the first bar of the symbol at or after current_datetime
get_next_bar_inclusive(ex, symbol) ==
    IF ex.ohlcv_cache = None \/ ex.current_datetime = NoDatetime
    THEN None
    ELSE LET next_bars ==
                 {b \in ex.ohlcv_cache.rows :
                     b.symbol = symbol /\ b.datetime >= ex.current_datetime}
         IN IF next_bars = {}
            THEN None
            ELSE CHOOSE b \in next_bars : \A o \in next_bars : b.datetime <= o.datetime

\* _get_next_bar: the first bar of the symbol after current_datetime
get_next_bar(ex, symbol) ==
    IF ex.ohlcv_cache = None \/ ex.current_datetime = NoDatetime
    THEN None
    ELSE LET next_bars ==
                 {b \in ex.ohlcv_cache.rows :
                     b.symbol = symbol /\ b.datetime > ex.current_datetime}
         IN IF next_bars = {}
            THEN None
            ELSE CHOOSE b \in next_bars : \A o \in next_bars : b.datetime <= o.datetime

\* _get_current_bar: the latest bar of the symbol up to current_datetime
get_current_bar(ex, symbol) ==
    IF ex.ohlcv_cache = None \/ ex.current_datetime = NoDatetime
    THEN None
    ELSE LET current_bars ==
                 {b \in ex.ohlcv_cache.rows :
                     b.symbol = symbol /\ b.datetime <= ex.current_datetime}
         IN IF current_bars = {}
            THEN None
            ELSE CHOOSE b \in current_bars :
                     \A o \in current_bars : b.datetime >= o.datetime

\* slippage in the favourable direction: a buy below, a sell above the base
apply_slippage_favourable(config, price, side) ==
    IF side = "buy"
    THEN (price * (10000 - config.slippage_bps)) \div 10000
    ELSE (price * (10000 + config.slippage_bps)) \div 10000

\* _apply_slippage: price * (1 +- slippage_bps / 10000)
apply_slippage(config, price, side) ==
    IF side = "buy"
    THEN (price * (10000 + config.slippage_bps)) \div 10000
    ELSE (price * (10000 - config.slippage_bps)) \div 10000

\* the fill report of one order; order_id stands for the fresh uuid4
Fill(config, order_id, symbol, side, quantity, filled_price, fill_time) ==
    [order_id |-> order_id, symbol |-> symbol, side |-> side,
     filled_quantity |-> quantity, filled_price |-> filled_price,
     commission |-> filled_price * quantity * config.commission_rate,
     timestamp |-> fill_time]

\* _process_market_order
process_market_order(ex, symbol, side, quantity, order_id) ==
    LET bar == IF ex.config.market_fill_price_type = "next_open"
               THEN get_next_bar(ex, symbol)
               ELSE get_current_bar(ex, symbol)
    IN IF bar = None
       THEN None
       ELSE LET base_price == IF ex.config.market_fill_price_type = "next_open"
                              THEN bar.open ELSE bar.close
            IN Fill(ex.config, order_id, symbol, side, quantity,
                    apply_slippage(ex.config, base_price, side), bar.datetime)

\* a limit order that also fills at a price equal to the low or the high
process_limit_order_inclusive(ex, symbol, side, quantity, limit_price, order_id) ==
    LET next_bar == get_next_bar(ex, symbol)
    IN IF next_bar = None
       THEN None
       ELSE IF side = "buy" /\ limit_price < next_bar.low
            THEN None
            ELSE IF side # "buy" /\ limit_price > next_bar.high
                 THEN None
                 ELSE Fill(ex.config, order_id, symbol, side, quantity,
                           limit_price, next_bar.datetime)

\* _process_limit_order
process_limit_order(ex, symbol, side, quantity, limit_price, order_id) ==
    LET next_bar == get_next_bar(ex, symbol)
    IN IF next_bar = None
       THEN None
       ELSE IF side = "buy" /\ limit_price <= next_bar.low
            THEN None
            ELSE IF side # "buy" /\ limit_price >= next_bar.high
                 THEN None
                 ELSE Fill(ex.config, order_id, symbol, side, quantity,
                           limit_price, next_bar.datetime)

\* the loop of submit_orders over the rows still to process: fills_data,
\* the _process_* calls made and the exception that ended the loop
RECURSIVE submit_rows(_, _, _, _)
submit_rows(ex, order_rows, fills_data, calls) ==
    IF order_rows = <<>>
    THEN [fills_data |-> fills_data, calls |-> calls, error |-> None]
    ELSE LET row == Head(order_rows)
             order_id == Len(ex.fill_history) * MaxOrders + Len(fills_data) + 1
             After(op, args, fill) ==
                 submit_rows(ex, Tail(order_rows),
                             IF fill # None THEN Append(fills_data, fill)
                             ELSE fills_data,
                             Append(calls, Call(op, "submit_orders", args, fill, None)))
         IN CASE row.order_type = "market" ->
                   After("_process_market_order",
                         <<row.symbol, row.side, row.quantity>>,
                         process_market_order(ex, row.symbol, row.side,
                                              row.quantity, order_id))
              [] row.order_type = "limit" /\ row.price = NullFloat ->
                   [fills_data |-> fills_data, calls |-> calls,
                    error |-> Exc("ValueError")]
              [] row.order_type = "limit" /\ row.price # NullFloat ->
                   After("_process_limit_order",
                         <<row.symbol, row.side, row.quantity, row.price>>,
                         process_limit_order(ex, row.symbol, row.side,
                                             row.quantity, row.price, order_id))
              [] OTHER -> submit_rows(ex, Tail(order_rows), fills_data, calls)

\* submit_orders that puts the fills of a table before those in the history
submit_orders_prepend(ex, orders) ==
    IF ~OrderSchema_validate(orders)
    THEN [exchange |-> ex, calls |-> <<>>, error |-> Exc("ValueError")]
    ELSE LET done == submit_rows(ex, to_dicts(orders), <<>>, <<>>)
         IN [exchange |-> IF done.error = None /\ done.fills_data # <<>>
                          THEN [ex EXCEPT !.fill_history = <<done.fills_data>> \o @]
                          ELSE ex,
             calls |-> done.calls, error |-> done.error]

\* submit_orders that keeps the fills of its last table only
submit_orders_replace(ex, orders) ==
    IF ~OrderSchema_validate(orders)
    THEN [exchange |-> ex, calls |-> <<>>, error |-> Exc("ValueError")]
    ELSE LET done == submit_rows(ex, to_dicts(orders), <<>>, <<>>)
         IN [exchange |-> IF done.error = None /\ done.fills_data # <<>>
                          THEN [ex EXCEPT !.fill_history = <<done.fills_data>>]
                          ELSE ex,
             calls |-> done.calls, error |-> done.error]

\* submit_orders that records the fills made before the row that raised
submit_orders_partial(ex, orders) ==
    IF ~OrderSchema_validate(orders)
    THEN [exchange |-> ex, calls |-> <<>>, error |-> Exc("ValueError")]
    ELSE LET done == submit_rows(ex, to_dicts(orders), <<>>, <<>>)
         IN [exchange |-> IF done.fills_data # <<>>
                          THEN [ex EXCEPT !.fill_history = Append(@, done.fills_data)]
                          ELSE ex,
             calls |-> done.calls, error |-> done.error]

\* submit_orders(orders): the client it leaves, the _process_* calls it
\* made and the exception it raised
submit_orders(ex, orders) ==
    IF ~OrderSchema_validate(orders)
    THEN [exchange |-> ex, calls |-> <<>>, error |-> Exc("ValueError")]
    ELSE LET done == submit_rows(ex, to_dicts(orders), <<>>, <<>>)
         IN [exchange |-> IF done.error = None /\ done.fills_data # <<>>
                          THEN [ex EXCEPT !.fill_history = Append(@, done.fills_data)]
                          ELSE ex,
             calls |-> done.calls, error |-> done.error]

\* load_ohlcv(start, end, symbols): the data source hands back some of its
\* rows, or raises
MockLoadOhlcv ==
    /\ last = NoCall
    /\ ncalls < MaxExchangeOps
    /\ \E rows \in SUBSET OhlcvSource, exc \in {None, Exc("ValueError")} :
          /\ exchange' = IF exc = None
                         THEN [exchange EXCEPT !.ohlcv_cache = [rows |-> rows]]
                         ELSE exchange
          /\ last' = [NoCall EXCEPT !.via = "load_ohlcv", !.error = exc,
                                    !.calls = <<Call("fetch", "load_ohlcv", <<>>,
                                                     IF exc = None THEN [rows |-> rows]
                                                     ELSE None, exc)>>]
    /\ ncalls' = ncalls + 1
    /\ UNCHANGED <<store_type, storage, mem, ctx, positions, pending, saved,
                   replay, procs, engine>>

\* set_current_datetime(dt)
MockSetCurrentDatetime ==
    /\ last = NoCall
    /\ ncalls < MaxExchangeOps
    /\ \E dt \in 0 .. MaxBars :
          /\ exchange' = [exchange EXCEPT !.current_datetime = dt]
          /\ last' = [NoCall EXCEPT !.via = "set_current_datetime",
                                    !.target_date = dt]
    /\ ncalls' = ncalls + 1
    /\ UNCHANGED <<store_type, storage, mem, ctx, positions, pending, saved,
                   replay, procs, engine>>

\* submit_orders(orders)
MockSubmitOrders ==
    /\ last = NoCall
    /\ ncalls < MaxExchangeOps
    /\ \E orders \in OrderBatches :
          LET done == submit_orders(exchange, orders)
          IN /\ exchange' = done.exchange
             /\ last' = [NoCall EXCEPT
                            !.via = "submit_orders", !.error = done.error,
                            !.calls = <<Call("submit_orders", "exchange", <<orders>>,
                                             None, done.error)>> \o done.calls]
    /\ ncalls' = ncalls + 1
    /\ UNCHANGED <<store_type, storage, mem, ctx, positions, pending, saved,
                   replay, procs, engine>>

InitExchange ==
    /\ store_type = "InMemoryStore"
    /\ storage = <<>>
    /\ mem = InMemoryStore_init
    /\ ctx = None
    /\ positions = 0
    /\ pending = None
    /\ saved = {}
    /\ last = NoCall
    /\ ncalls = 0
    /\ replay = NoReplay
    /\ procs = <<>>
    /\ exchange \in {MockExchangeClient(config) : config \in CostConfigs}
    /\ engine = None

NextExchange == MockLoadOhlcv \/ MockSetCurrentDatetime \/ MockSubmitOrders \/ Return

SpecExchange == InitExchange /\ [][NextExchange]_vars

-----------------------------------------------------------------------------
(* MockExchangeClient: the fill history read back by fetch_fills and       *)
(* fetch_positions.  An average price is kept as the exact fraction        *)
(* num / den (den > 0) that the float of the code rounds.                  *)

\* pl.concat(self.fill_history)
RECURSIVE concat(_)
concat(frames) ==
    IF frames = <<>> THEN <<>> ELSE Head(frames) \o concat(Tail(frames))

\* fetch_fills with the end of the range left out
fetch_fills_before_end(ex, start, end) ==
    LET InRange(fill) == fill.timestamp >= start /\ fill.timestamp < end
    IN SelectSeq(concat(ex.fill_history), InRange)

\* fetch_fills(start, end): the rows of the frame it returns (none for the
\* empty frame of the schema)
fetch_fills(ex, start, end) ==
    LET InRange(fill) == fill.timestamp >= start /\ fill.timestamp <= end
    IN SelectSeq(concat(ex.fill_history), InRange)

\* all_fills.sort("timestamp"): the orders the sort can leave the rows in;
\* polars keeps no order among rows of one timestamp (maintain_order=False)
sort_by_timestamp(rows) ==
    LET n == Len(rows)
        perms == {f \in [1 .. n -> 1 .. n] : \A i, j \in 1 .. n : f[i] = f[j] => i = j}
    IN {[i \in 1 .. n |-> rows[f[i]]] : f \in
           {g \in perms : \A i, j \in 1 .. n :
               i < j => rows[g[i]].timestamp <= rows[g[j]].timestamp}}

\* the quotient num / den of two floats (den # 0), in lowest terms
Fraction(num, den) ==
    LET Abs(x) == IF x < 0 THEN -x ELSE x
        RECURSIVE gcd(_, _)
        gcd(a, b) == IF b = 0 THEN a ELSE gcd(b, a % b)
        d == gcd(Abs(num), Abs(den))
    IN IF den < 0 THEN [num |-> (-num) \div d, den |-> (-den) \div d]
       ELSE [num |-> num \div d, den |-> den \div d]

\* a fill larger than the position it closes leaves the old average price
apply_fill_keep_avg(pos, row) ==
    LET signed_qty == IF row.side = "buy" THEN row.filled_quantity
                      ELSE -row.filled_quantity
        price == row.filled_price
        current_qty == pos.quantity
        Abs(x) == IF x < 0 THEN -x ELSE x
    IN IF current_qty = 0
       THEN [pos EXCEPT !.quantity = signed_qty, !.avg_price = [num |-> price, den |-> 1]]
       ELSE IF (current_qty > 0 /\ signed_qty > 0) \/ (current_qty < 0 /\ signed_qty < 0)
       THEN LET new_qty == current_qty + signed_qty
                num == current_qty * pos.avg_price.num + signed_qty * price * pos.avg_price.den
                den == pos.avg_price.den * new_qty
            IN [pos EXCEPT !.quantity = new_qty,
                           !.avg_price = Fraction(num, den)]
       ELSE IF (current_qty > 0 /\ 0 > signed_qty) \/ (current_qty < 0 /\ 0 < signed_qty)
       THEN IF Abs(current_qty) > Abs(signed_qty)
            THEN [pos EXCEPT !.quantity = current_qty + signed_qty]
            ELSE IF Abs(current_qty) = Abs(signed_qty)
            THEN [pos EXCEPT !.quantity = 0, !.avg_price = [num |-> 0, den |-> 1]]
            ELSE [pos EXCEPT !.quantity = signed_qty + current_qty]
       ELSE pos

\* a replay in which a flip opens the whole quantity of the flipping fill
apply_fill_flip_restart(pos, row) ==
    LET signed_qty == IF row.side = "buy" THEN row.filled_quantity
                      ELSE -row.filled_quantity
        price == row.filled_price
        current_qty == pos.quantity
        Abs(x) == IF x < 0 THEN -x ELSE x
    IN IF current_qty = 0
       THEN [pos EXCEPT !.quantity = signed_qty, !.avg_price = [num |-> price, den |-> 1]]
       ELSE IF (current_qty > 0 /\ signed_qty > 0) \/ (current_qty < 0 /\ signed_qty < 0)
       THEN LET new_qty == current_qty + signed_qty
                num == current_qty * pos.avg_price.num + signed_qty * price * pos.avg_price.den
                den == pos.avg_price.den * new_qty
            IN [pos EXCEPT !.quantity = new_qty,
                           !.avg_price = Fraction(num, den)]
       ELSE IF (current_qty > 0 /\ 0 > signed_qty) \/ (current_qty < 0 /\ 0 < signed_qty)
       THEN IF Abs(current_qty) > Abs(signed_qty)
            THEN [pos EXCEPT !.quantity = current_qty + signed_qty]
            ELSE IF Abs(current_qty) = Abs(signed_qty)
            THEN [pos EXCEPT !.quantity = 0, !.avg_price = [num |-> 0, den |-> 1]]
            ELSE [pos EXCEPT !.quantity = signed_qty,
                             !.avg_price = [num |-> price, den |-> 1]]
       ELSE pos

\* the body of the loop of fetch_positions over fill_rows: the position of
\* the symbol of a row after the row
apply_fill(pos, row) ==
    LET signed_qty == IF row.side = "buy" THEN row.filled_quantity
                      ELSE -row.filled_quantity
        price == row.filled_price
        current_qty == pos.quantity
        Abs(x) == IF x < 0 THEN -x ELSE x
    IN IF current_qty = 0
       THEN [pos EXCEPT !.quantity = signed_qty, !.avg_price = [num |-> price, den |-> 1]]
       ELSE IF (current_qty > 0 /\ signed_qty > 0) \/ (current_qty < 0 /\ signed_qty < 0)
       THEN LET new_qty == current_qty + signed_qty
                num == current_qty * pos.avg_price.num + signed_qty * price * pos.avg_price.den
                den == pos.avg_price.den * new_qty
            IN [pos EXCEPT !.quantity = new_qty,
                           !.avg_price = Fraction(num, den)]
       ELSE IF (current_qty > 0 /\ 0 > signed_qty) \/ (current_qty < 0 /\ 0 < signed_qty)
       THEN IF Abs(current_qty) > Abs(signed_qty)
            THEN [pos EXCEPT !.quantity = current_qty + signed_qty]
            ELSE IF Abs(current_qty) = Abs(signed_qty)
            THEN [pos EXCEPT !.quantity = 0, !.avg_price = [num |-> 0, den |-> 1]]
            ELSE [pos EXCEPT !.quantity = signed_qty + current_qty,
                             !.avg_price = [num |-> price, den |-> 1]]
       ELSE pos

\* the loop of fetch_positions: positions_map after the rows, as the list
\* of its entries in the order their symbols were first met
RECURSIVE replay_fills(_, _)
replay_fills(fill_rows, positions_map) ==
    IF fill_rows = <<>>
    THEN positions_map
    ELSE LET row == Head(fill_rows)
             known == {i \in DOMAIN positions_map : positions_map[i].symbol = row.symbol}
             entered == IF known = {}
                        THEN Append(positions_map,
                                    [symbol |-> row.symbol, quantity |-> 0,
                                     avg_price |-> [num |-> 0, den |-> 1]])
                        ELSE positions_map
             at == CHOOSE i \in DOMAIN entered : entered[i].symbol = row.symbol
         IN replay_fills(Tail(fill_rows),
                         [entered EXCEPT ![at] = apply_fill(@, row)])

\* fetch_positions that also lists the symbols whose position is closed
fetch_positions_with_flat(fill_rows) == replay_fills(fill_rows, <<>>)

\* fetch_positions() over the sorted rows of the fill history: the rows of
\* the frame it returns
fetch_positions(fill_rows) ==
    LET Live(pos) == pos.quantity # 0
    IN SelectSeq(replay_fills(fill_rows, <<>>), Live)

\* the cost configurations and the order tables of the clients whose fill
\* history is read back: no slippage, no commission; market orders of two
\* sizes, a limit buy above the first bar's open and one without a price
LedgerConfigs ==
    {config \in CostConfigs :
        /\ config.commission_rate = 0
        /\ config.slippage_bps = 0
        /\ config.limit_fill_bar_type = "next_bar"}
LedgerBatches ==
    LET Rows == [symbol : {"AAPL"}, side : {"buy", "sell"},
                 quantity : {"10.0", "20.0"}, price : {"null"}, order_type : {"market"}]
                \cup [symbol : {"GOOG"}, side : {"buy"}, quantity : {"10.0"},
                      price : {"null"}, order_type : {"market"}]
                \cup [symbol : {"AAPL"}, side : {"buy"}, quantity : {"10.0"},
                      price : {"null", "800.0"}, order_type : {"limit"}]
    IN {[schema |-> OrderColumns, rows |-> rows] :
           rows \in UNION {[1 .. n -> Rows] : n \in 1 .. MaxOrders}}

\* number of fills in the fill history
NumFills(ex) == Len(concat(ex.fill_history))

\* load_ohlcv(start, end, symbols): the data source hands back its rows
LedgerLoadOhlcv ==
    /\ last = NoCall
    /\ exchange' = [exchange EXCEPT !.ohlcv_cache = [rows |-> OhlcvSource]]
    /\ last' = [NoCall EXCEPT !.via = "load_ohlcv"]
    /\ UNCHANGED <<store_type, storage, mem, ctx, positions, pending, saved, ncalls,
                   replay, procs, engine>>

\* set_current_datetime(dt)
LedgerSetCurrentDatetime ==
    /\ last = NoCall
    /\ \E dt \in 0 .. MaxBars :
          /\ exchange' = [exchange EXCEPT !.current_datetime = dt]
          /\ last' = [NoCall EXCEPT !.via = "set_current_datetime",
                                    !.target_date = dt]
    /\ UNCHANGED <<store_type, storage, mem, ctx, positions, pending, saved, ncalls,
                   replay, procs, engine>>

\* submit_orders(orders)
LedgerSubmitOrders ==
    /\ last = NoCall
    /\ \E orders \in LedgerBatches :
          /\ NumFills(exchange) + Len(orders.rows) <= MaxFills
          /\ LET done == submit_orders(exchange, orders)
             IN /\ exchange' = done.exchange
                /\ last' = [NoCall EXCEPT
                               !.via = "submit_orders", !.error = done.error,
                               !.calls = <<Call("submit_orders", "exchange", <<orders>>,
                                                None, done.error)>> \o done.calls]
    /\ UNCHANGED <<store_type, storage, mem, ctx, positions, pending, saved, ncalls,
                   replay, procs, engine>>

\* fetch_fills(start, end)
LedgerFetchFills ==
    /\ last = NoCall
    /\ \E start, end \in 1 .. MaxBars :
          last' = [NoCall EXCEPT
                      !.via = "fetch_fills",
                      !.calls = <<Call("fetch_fills", "exchange", <<start, end>>,
                                       fetch_fills(exchange, start, end), None)>>]
    /\ UNCHANGED <<store_type, storage, mem, ctx, positions, pending, saved, ncalls,
                   replay, procs, exchange, engine>>

\* fetch_positions()
LedgerFetchPositions ==
    /\ last = NoCall
    /\ \E fill_rows \in sort_by_timestamp(concat(exchange.fill_history)) :
          last' = [NoCall EXCEPT
                      !.via = "fetch_positions",
                      !.calls = <<Call("fetch_positions", "exchange", <<fill_rows>>,
                                       fetch_positions(fill_rows), None)>>]
    /\ UNCHANGED <<store_type, storage, mem, ctx, positions, pending, saved, ncalls,
                   replay, procs, exchange, engine>>

InitLedger ==
    /\ store_type = "InMemoryStore"
    /\ storage = <<>>
    /\ mem = InMemoryStore_init
    /\ ctx = None
    /\ positions = 0
    /\ pending = None
    /\ saved = {}
    /\ last = NoCall
    /\ ncalls = 0
    /\ replay = NoReplay
    /\ procs = <<>>
    /\ exchange \in {MockExchangeClient(config) : config \in LedgerConfigs}
    /\ engine = None

NextLedger ==
    \/ LedgerLoadOhlcv
    \/ LedgerSetCurrentDatetime
    \/ LedgerSubmitOrders
    \/ LedgerFetchFills
    \/ LedgerFetchPositions
    \/ Return

SpecLedger == InitLedger /\ [][NextLedger]_vars

-----------------------------------------------------------------------------
(* The shipped data sources: ParquetDataSource and MockDataSource.         *)
(* A DataFrame is [rows |-> the sequence of its rows]; a row keeps the     *)
(* datetime and symbol columns, the ones fetch reads; datetimes, offsets    *)
(* and windows are counted in hours (3600 seconds).  The file behind a      *)
(* ParquetDataSource also names its columns: its datetimes are in a column  *)
(* called datetime or timestamp, of dtype Datetime.                         *)

FetchSymbols == <<"AAPL", "GOOG">>

\* the largest |offset_seconds| and the largest window_seconds, in hours
MaxOffsetHours == 1
MaxWindowHours == 2
\* the number of target datetimes, the last one being 10:00
NumTargets == 2
LastTarget == 10

FetchTargets == (LastTarget - NumTargets + 1) .. LastTarget

\* the names the datetime column of a file goes by
DatetimeColumns == {"datetime", "timestamp"}

\* DataSourceConfig: datetime_column is a str, offset_seconds is any int,
\* window_seconds is gt=0
DataSourceConfigs ==
    [datetime_column : DatetimeColumns,
     offset_seconds : (0 - MaxOffsetHours) .. MaxOffsetHours,
     window_seconds : 1 .. MaxWindowHours]

\* the file behind source_path (or the data a MockDataSource was given):
\* one row per symbol and hour, from before every window to after it
FirstSourceHour == LastTarget - NumTargets - 2 * MaxOffsetHours - MaxWindowHours
LastSourceHour == LastTarget + 2 * MaxOffsetHours + 1
SourceRows ==
    [i \in 1 .. (2 * (LastSourceHour - FirstSourceHour + 1)) |->
        [datetime |-> FirstSourceHour + ((i - 1) \div 2),
         symbol |-> FetchSymbols[((i - 1) % 2) + 1]]]

\* the files io.load can return for source_path: the rows of the source
\* with the datetimes in a column of either name
SourceFiles ==
    {[columns |-> <<c, "symbol">>, rows |-> SourceRows] : c \in DatetimeColumns}

\* BaseDataSource._normalize_datetime_column(df): a KeyError when the
\* configured column is not in the file, else the frame with that column
\* named datetime
normalize_datetime_column(config, df) ==
    IF \A i \in 1 .. Len(df.columns) : df.columns[i] # config.datetime_column
    THEN [ret |-> None, exc |-> Exc("KeyError")]
    ELSE [ret |-> [rows |-> df.rows], exc |-> None]

\* BaseDataSource._adjust_window_for_offset(start, end)
adjust_window_for_offset(config, start, end) ==
    LET offset == config.offset_seconds
    IN  <<start - offset, end - offset>>

\* BaseDataSource._filter_by_datetime_and_symbols(df, start, end, symbols)
filter_by_datetime_and_symbols(df, start, end, symbols) ==
    LET is_in(symbol) == \E i \in 1 .. Len(symbols) : symbols[i] = symbol
        keep(row) == row.datetime >= start /\ row.datetime <= end /\ is_in(row.symbol)
    IN  [rows |-> SelectSeq(df.rows, keep)]

\* ParquetDataSource.fetch(start, end, symbols); ds.file is what io.load
\* returns for the path of the source
ParquetDataSource_fetch(ds, start, end, symbols) ==
    IF ds.file = None \/ ds.file.rows = <<>>
    THEN [ret |-> None, exc |-> Exc("ValueError")]
    ELSE LET normalized == normalize_datetime_column(ds.config, ds.file)
             adjusted == adjust_window_for_offset(ds.config, start, end)
         IN  IF normalized.exc # None
             THEN normalized
             ELSE [ret |-> filter_by_datetime_and_symbols(normalized.ret, adjusted[1],
                                                          adjusted[2], symbols),
                   exc |-> None]

\* MockDataSource._generate_default_data(start, symbols)
generate_default_data(start, symbols) ==
    LET target_symbols == IF symbols # <<>> THEN symbols ELSE <<"AAPL", "GOOG">>
    IN  [rows |-> [i \in 1 .. Len(target_symbols) |->
                      [datetime |-> start, symbol |-> target_symbols[i]]]]

\* MockDataSource.fetch(start, end, symbols)
MockDataSource_fetch(ds, start, end, symbols) ==
    LET df == IF ds.data = None THEN generate_default_data(start, symbols)
              ELSE ds.data
    IN  [ret |-> filter_by_datetime_and_symbols(df, start, end, symbols),
         exc |-> None]

\* ds.fetch(start, end, symbols) of a shipped data source
DataSource_fetch(ds, start, end, symbols) ==
    IF ds.cls = "ParquetDataSource"
    THEN ParquetDataSource_fetch(ds, start, end, symbols)
    ELSE MockDataSource_fetch(ds, start, end, symbols)

\* the data sources an engine can be built with
ShippedDataSources ==
    {[cls |-> "ParquetDataSource", config |-> config, file |-> file] :
        config \in DataSourceConfigs, file \in {None} \cup SourceFiles}
    \cup
    {[cls |-> "MockDataSource", config |-> config, data |-> data] :
        config \in DataSourceConfigs, data \in {None, [rows |-> SourceRows]}}

\* LoopConfig.universe: list[str] | None
Universes ==
    {None} \cup {[list |-> l] : l \in {<<>>, <<"AAPL">>, <<"AAPL", "GOOG">>}}

\* StrategyEngine._fetch_data_sources(target_date) of an engine with one
\* data source, named ohlcv
fetch_data_sources(eng, target_date) ==
    LET universe == IF eng.universe = None \/ eng.universe.list = <<>> THEN <<>>
                    ELSE eng.universe.list
        ds == eng.data_sources.ohlcv
        range == data_fetch_range(target_date, ds.config)
        start == range[1]
        end == range[2]
        fetched == DataSource_fetch(ds, start, end, universe)
    IN  [calls |-> <<Call("fetch", "ohlcv", <<start, end, universe>>,
                          fetched.ret, fetched.exc)>>,
         ret |-> IF fetched.exc = None THEN [ohlcv |-> fetched.ret] ELSE None,
         exc |-> fetched.exc]

\* self._fetch_data_sources(target_date)
FetchDataSources ==
    /\ last = NoCall
    /\ \E target_date \in FetchTargets :
          LET done == fetch_data_sources(engine, target_date)
          IN  last' = [NoCall EXCEPT
                          !.via = "_fetch_data_sources",
                          !.target_date = target_date,
                          !.error = done.exc,
                          !.calls = <<Call("_fetch_data_sources", "engine",
                                           <<target_date>>, done.ret, done.exc)>>
                                    \o done.calls]
    /\ UNCHANGED <<store_type, storage, mem, ctx, positions, pending, saved, ncalls,
                   replay, procs, exchange, engine>>

InitFetch ==
    /\ store_type = "InMemoryStore"
    /\ storage = <<>>
    /\ mem = InMemoryStore_init
    /\ ctx = None
    /\ positions = 0
    /\ pending = None
    /\ saved = {}
    /\ last = NoCall
    /\ ncalls = 0
    /\ replay = NoReplay
    /\ procs = <<>>
    /\ exchange = None
    /\ engine \in {[universe |-> universe, data_sources |-> [ohlcv |-> ds]] :
                      universe \in Universes, ds \in ShippedDataSources}

NextFetch == FetchDataSources \/ Return

SpecFetch == InitFetch /\ [][NextFetch]_vars

-----------------------------------------------------------------------------
(* A MockExchangeClient whose OHLCV cache is loaded once and whose cursor   *)
(* is only moved forward: set_current_datetime, submit_orders and           *)
(* fetch_positions calls                                                    *)

\* market orders, a limit sell below the second bar's high and a limit buy
\* above the first bar's low
CursorBatches ==
    LET Rows == [symbol : {"AAPL"}, side : {"buy", "sell"},
                 quantity : {"10.0"}, price : {"null"}, order_type : {"market"}]
                \cup [symbol : {"GOOG"}, side : {"buy"}, quantity : {"10.0"},
                      price : {"null"}, order_type : {"market"}]
                \cup [symbol : {"AAPL"}, side : {"sell"}, quantity : {"10.0"},
                      price : {"800.0"}, order_type : {"limit"}]
                \cup [symbol : {"AAPL"}, side : {"buy"}, quantity : {"10.0"},
                      price : {"700.0"}, order_type : {"limit"}]
    IN {[schema |-> OrderColumns, rows |-> rows] :
           rows \in UNION {[1 .. n -> Rows] : n \in 1 .. MaxOrders}}

\* set_current_datetime(dt) of a caller that never moves the cursor back
CursorAdvance ==
    /\ last = NoCall
    /\ \E dt \in 0 .. MaxBars :
          /\ dt >= exchange.current_datetime
          /\ exchange' = [exchange EXCEPT !.current_datetime = dt]
          /\ last' = [NoCall EXCEPT !.via = "set_current_datetime",
                                    !.target_date = dt]
    /\ UNCHANGED <<store_type, storage, mem, ctx, positions, pending, saved, ncalls,
                   replay, procs, engine>>

\* submit_orders(orders)
CursorSubmitOrders ==
    /\ last = NoCall
    /\ \E orders \in CursorBatches :
          /\ NumFills(exchange) + Len(orders.rows) <= MaxFills
          /\ LET done == submit_orders(exchange, orders)
             IN /\ exchange' = done.exchange
                /\ last' = [NoCall EXCEPT
                               !.via = "submit_orders", !.error = done.error,
                               !.calls = <<Call("submit_orders", "exchange", <<orders>>,
                                                None, done.error)>> \o done.calls]
    /\ UNCHANGED <<store_type, storage, mem, ctx, positions, pending, saved, ncalls,
                   replay, procs, engine>>

InitCursor ==
    /\ store_type = "InMemoryStore"
    /\ storage = <<>>
    /\ mem = InMemoryStore_init
    /\ ctx = None
    /\ positions = 0
    /\ pending = None
    /\ saved = {}
    /\ last = NoCall
    /\ ncalls = 0
    /\ replay = NoReplay
    /\ procs = <<>>
    /\ exchange \in {[MockExchangeClient(config) EXCEPT
                          !.ohlcv_cache = [rows |-> OhlcvSource]] :
                      config \in LedgerConfigs}
    /\ engine = None

NextCursor == CursorAdvance \/ CursorSubmitOrders \/ LedgerFetchPositions \/ Return

SpecCursor == InitCursor /\ [][NextCursor]_vars

-----------------------------------------------------------------------------
(* The attributes of a StrategyEngine: the methods the class defines; it   *)
(* defines no __getattr__, so any other name raises AttributeError when it  *)
(* is looked up, before anything runs                                       *)

StrategyEngine_methods ==
    {"_get_data_fetch_range", "_fetch_data_sources", "_fetch_ohlcv_for_step",
     "_run_calculate_signals", "_run_construct_portfolio",
     "_run_create_entry_orders", "_run_create_exit_orders",
     "_run_submit_entry_orders", "_run_submit_exit_orders",
     "run_step", "run_steps", "load_context"}

\* engine.run_all_steps(target_date), as the integration tests call it
RunAllSteps ==
    /\ pending = None
    /\ last = NoCall
    /\ "run_all_steps" \notin StrategyEngine_methods
    /\ \E T \in Datetimes :
          last' = [NoCall EXCEPT !.via = "run_all_steps",
                                 !.target_date = T,
                                 !.error = Exc("AttributeError")]
    /\ UNCHANGED <<store_type, storage, mem, ctx, positions, pending, saved, ncalls,
                   replay, procs, exchange, engine>>

NextAttr == RunStep \/ NewEngine \/ Return \/ RunAllSteps

SpecAttr == Init /\ [][NextAttr]_vars

-----------------------------------------------------------------------------
(* FullExitOrderCreator (qeel.exit_order_creators.full_exit).              *)
(* Float64 cells are strings; exit_threshold is a fraction [num, den] of    *)
(* [0, 1]; the products of the model are exact in Float64                   *)

\* PositionSchema.validate(df): TRUE iff it returns
PositionSchema_validate(df) ==
    RequiredTyped(df, [symbol |-> "String", quantity |-> "Float64",
                       avg_price |-> "Float64"])

\* OHLCVSchema.validate(df): TRUE iff it returns
OHLCVSchema_validate(df) ==
    RequiredTyped(df, [datetime |-> "Datetime", symbol |-> "String",
                       open |-> "Float64", high |-> "Float64", low |-> "Float64",
                       close |-> "Float64", volume |-> "Int64"])

PositionColumns ==
    [symbol |-> "String", quantity |-> "Float64", avg_price |-> "Float64"]
OHLCVColumns ==
    [datetime |-> "Datetime", symbol |-> "String", open |-> "Float64",
     high |-> "Float64", low |-> "Float64", close |-> "Float64", volume |-> "Int64"]

ExitSymbols == <<"AAPL", "GOOGL">>
ExitQuantities == {"-50.0", "0.0", "50.0", "100.0"}

\* the number in a Float64 cell of a position table, and the cell of a
\* number in an order table
float_of(cell) ==
    CASE cell = "-50.0" -> 0 - 50
      [] cell = "0.0" -> 0
      [] cell = "50.0" -> 50
      [] cell = "100.0" -> 100
float_cell(x) ==
    CASE x = 0 -> "0.0"
      [] x = 25 -> "25.0"
      [] x = 50 -> "50.0"
      [] x = 100 -> "100.0"

\* FullExitParams: exit_threshold is ge=0.0, le=1.0, default 1.0
FullExitParamsSet ==
    {[exit_threshold |-> t] :
        t \in {[num |-> 0, den |-> 1], [num |-> 1, den |-> 2], [num |-> 1, den |-> 1]}}

\* the position tables handed to create: at most one row per symbol, and a
\* table without the quantity column
ExitPositionTables ==
    LET row(symbol, quantity) ==
            [symbol |-> symbol, quantity |-> quantity, avg_price |-> "150.0"]
        rowsOf(symbol) == {<<>>} \cup {<<row(symbol, q)>> : q \in ExitQuantities}
    IN  {[schema |-> PositionColumns, rows |-> a \o g] :
            a \in rowsOf(ExitSymbols[1]), g \in rowsOf(ExitSymbols[2])}
        \cup {[schema |-> [symbol |-> "String", avg_price |-> "Float64"], rows |-> <<>>]}

\* the OHLCV tables handed to create: one bar for each symbol of a subset,
\* and a table whose volume column is Float64
ExitOhlcvTables ==
    LET bar(symbol) ==
            [datetime |-> "d", symbol |-> symbol, open |-> "150.0", high |-> "155.0",
             low |-> "148.0", close |-> "153.0", volume |-> "1000000"]
        barsOf(symbol) == {<<>>, <<bar(symbol)>>}
    IN  {[schema |-> OHLCVColumns, rows |-> a \o g] :
            a \in barsOf(ExitSymbols[1]), g \in barsOf(ExitSymbols[2])}
        \cup {[schema |-> [OHLCVColumns EXCEPT !.volume = "Float64"], rows |-> <<>>]}

\* the loop of create over current_positions.to_dicts()
RECURSIVE full_exit_rows(_, _, _)
full_exit_rows(params, position_rows, orders) ==
    IF position_rows = <<>> THEN orders
    ELSE LET row == Head(position_rows)
             symbol == row.symbol
             quantity == float_of(row.quantity)
             abs_quantity == IF quantity < 0 THEN 0 - quantity ELSE quantity
             exit_quantity ==
                 (abs_quantity * params.exit_threshold.num) \div params.exit_threshold.den
             side == IF quantity > 0 THEN "sell" ELSE "buy"
         IN  IF quantity = 0
             THEN full_exit_rows(params, Tail(position_rows), orders)
             ELSE full_exit_rows(params, Tail(position_rows),
                                 Append(orders,
                                        [symbol |-> symbol, side |-> side,
                                         quantity |-> float_cell(exit_quantity),
                                         price |-> "null", order_type |-> "market"]))

\* the schema pl.DataFrame(orders) infers for the rows of create: every
\* price is None, so the price column has dtype Null
InferredOrderColumns == [OrderColumns EXCEPT !.price = "Null"]

\* FullExitOrderCreator(params).create(current_positions, ohlcv)
FullExitOrderCreator_create(params, current_positions, ohlcv) ==
    IF ~(PositionSchema_validate(current_positions) /\ OHLCVSchema_validate(ohlcv))
    THEN [ret |-> None, exc |-> Exc("ValueError")]
    ELSE IF Height(current_positions) = 0
    THEN [ret |-> [schema |-> OrderColumns, rows |-> <<>>], exc |-> None]
    ELSE LET orders == full_exit_rows(params, current_positions.rows, <<>>)
             df == [schema |-> InferredOrderColumns, rows |-> orders]
         IN  IF orders = <<>>
             THEN [ret |-> [schema |-> OrderColumns, rows |-> <<>>], exc |-> None]
             ELSE IF OrderSchema_validate(df)
             THEN [ret |-> df, exc |-> None]
             ELSE [ret |-> None, exc |-> Exc("ValueError")]

\* creator.create(current_positions, ohlcv)
ExitCreate ==
    /\ last = NoCall
    /\ \E current_positions \in ExitPositionTables, ohlcv \in ExitOhlcvTables :
          LET done == FullExitOrderCreator_create(engine.params, current_positions, ohlcv)
          IN  last' = [NoCall EXCEPT
                          !.via = "create",
                          !.error = done.exc,
                          !.calls = <<Call("create", "exit_order_creator",
                                           <<current_positions, ohlcv>>,
                                           done.ret, done.exc)>>]
    /\ UNCHANGED <<store_type, storage, mem, ctx, positions, pending, saved, ncalls,
                   replay, procs, exchange, engine>>

InitExit ==
    /\ store_type = "InMemoryStore"
    /\ storage = <<>>
    /\ mem = InMemoryStore_init
    /\ ctx = None
    /\ positions = 0
    /\ pending = None
    /\ saved = {}
    /\ last = NoCall
    /\ ncalls = 0
    /\ replay = NoReplay
    /\ procs = <<>>
    /\ exchange = None
    /\ engine \in {[params |-> params] : params \in FullExitParamsSet}

NextExit == ExitCreate \/ Return

SpecExit == InitExit /\ [][NextExit]_vars

-----------------------------------------------------------------------------
(* Vocabulary of the properties *)

\* this step is a run_step call
Called == ncalls' = ncalls + 1

\* the artifact a step needs from the context, the artifact it produces
Prerequisite ==
    [construct_portfolio |-> "signals", create_entry_orders |-> "portfolio_plan",
     submit_entry_orders |-> "entry_orders", submit_exit_orders |-> "exit_orders"]
Produces ==
    [calculate_signals |-> "signals", construct_portfolio |-> "portfolio_plan",
     create_entry_orders |-> "entry_orders", create_exit_orders |-> "exit_orders"]

\* the call of the collaborator that consumes the prerequisite of a step
Consumer ==
    [construct_portfolio |-> "construct", create_entry_orders |-> "create_entry",
     submit_entry_orders |-> "submit_orders", submit_exit_orders |-> "submit_orders"]

CallsOf(l, op) == {i \in DOMAIN l.calls : l.calls[i].op = op}
Raised(l) == {i \in DOMAIN l.calls : l.calls[i].exc # None}
LoadReturned(l) == l.calls # <<>> /\ l.calls[1].exc = None

-----------------------------------------------------------------------------
(* C1: resume across processes.  A successful CALCULATE_SIGNALS for D      *)
(* leaves the calculator's signals in the store under D; a                 *)
(* CONSTRUCT_PORTFOLIO for D by an engine with no in-memory context, over  *)
(* a store holding signals for D, hands exactly those signals to the       *)
(* portfolio constructor, and succeeds when no collaborator raises.        *)
C1_ResumeAcrossProcesses ==
    [][Called =>
        LET l == last'
            D == l.target_date
        IN  /\ (l.step_name = CALCULATE_SIGNALS /\ l.error = None) =>
                  \E i \in CallsOf(l, "calculate") :
                      StoredIn(store_type', storage', mem', "signals", D) = l.calls[i].ret
            /\ (l.step_name = CONSTRUCT_PORTFOLIO /\ l.fresh
                    /\ Stored("signals", D) # None) =>
                  /\ \A i \in CallsOf(l, "construct") :
                        l.calls[i].args[1] = Stored("signals", D)
                  /\ Raised(l) = {} =>
                        /\ l.error = None
                        /\ Cardinality(CallsOf(l, "construct")) = 1
       ]_vars

\* a fresh engine has run CONSTRUCT_PORTFOLIO on stored signals
C1_Witness ==
    /\ last.step_name = CONSTRUCT_PORTFOLIO
    /\ last.fresh
    /\ last.error = None
    /\ \E i \in CallsOf(last, "construct") :
          /\ last.calls[i].args[1] = Stored("signals", last.target_date)
          /\ last.calls[i].args[1] # None

-----------------------------------------------------------------------------
(* C2: run_step never reuses the in-memory context.  Whatever _context     *)
(* held before the call, once the store has returned the context for the   *)
(* target date the handler takes its prerequisite from that context only:  *)
(* with no prerequisite stored the step ends with the missing-prerequisite *)
(* error even when the old _context held one, the consuming collaborator   *)
(* only ever gets the stored artifact, and the artifacts the engine holds  *)
(* afterwards, the one the step produces aside, are the stored ones.       *)
C2_NeverReusesMemory ==
    [][(Called /\ LoadReturned(last')) =>
        LET l == last'
            s == l.step_name
            T == l.target_date
        IN  /\ s \in DOMAIN Prerequisite =>
                  /\ Stored(Prerequisite[s], T) = None =>
                        l.error = PrerequisiteMissing(s, T)
                  /\ \A i \in CallsOf(l, Consumer[s]) :
                        l.calls[i].args[1] = Stored(Prerequisite[s], T)
            /\ \A n \in ComponentNames :
                  (s \in DOMAIN Produces => n # Produces[s]) =>
                      ctx'[n] = Stored(n, T)
       ]_vars

\* an artifact held in memory only did not satisfy the prerequisite
C2_Witness ==
    /\ last.step_name \in DOMAIN Prerequisite
    /\ Prerequisite[last.step_name] \in last.held
    /\ last.error = PrerequisiteMissing(last.step_name, last.target_date)

-----------------------------------------------------------------------------
IsPrerequisiteError(error, step_name, target_date) ==
    /\ "cls" \in DOMAIN error
    /\ error.cls = "StrategyEngineError"
    /\ error.step_name = step_name
    /\ error.target_date = target_date
    /\ error.original_error = None

(* C3 as stated: whenever the store holds no prerequisite for T, run_step  *)
(* of a step that needs one ends with the missing-prerequisite error       *)
(* (step_name = s, target_date = T, no original_error), and neither the    *)
(* user component of the step nor submit_orders is called.                 *)
C3_AlwaysPrerequisiteError ==
    [][Called =>
        LET l == last'
            s == l.step_name
            T == l.target_date
        IN  (s \in DOMAIN Prerequisite /\ Stored(Prerequisite[s], T) = None) =>
                /\ IsPrerequisiteError(l.error, s, T)
                /\ CallsOf(l, Consumer[s]) = {}
                /\ CallsOf(l, "submit_orders") = {}
       ]_vars

(* C3 as amended: with no prerequisite stored for T the call raises and    *)
(* calls neither the user component nor submit_orders; the error is the    *)
(* missing-prerequisite error whenever the reload of the context returned. *)
C3_MissingPrerequisite ==
    [][Called =>
        LET l == last'
            s == l.step_name
            T == l.target_date
        IN  (s \in DOMAIN Prerequisite /\ Stored(Prerequisite[s], T) = None) =>
                /\ l.error # None
                /\ LoadReturned(l) => IsPrerequisiteError(l.error, s, T)
                /\ CallsOf(l, Consumer[s]) = {}
                /\ CallsOf(l, "submit_orders") = {}
       ]_vars

\* a step found no prerequisite in a store that holds other artifacts of T
C3_Witness ==
    /\ last.step_name \in DOMAIN Prerequisite
    /\ Stored(Prerequisite[last.step_name], last.target_date) = None
    /\ \E n \in ComponentNames : Stored(n, last.target_date) # None
    /\ IsPrerequisiteError(last.error, last.step_name, last.target_date)

-----------------------------------------------------------------------------
(* C4: a run_step that raises because the reload, a data source, a user    *)
(* component or the exchange client failed, or because the prerequisite is *)
(* missing, leaves every entry of the store as it was, so load(T) returns  *)
(* for every kind what it returned before the call.  When it is the save   *)
(* that raises, only the entry being saved can have changed.               *)
SaveRaised(l) == \E i \in Raised(l) : l.calls[i].op = "save"

C4_FailedStepLeavesStore ==
    [][(Called /\ last'.error # None) =>
        LET l == last'
            T == l.target_date
        IN  /\ ~SaveRaised(l) =>
                  /\ storage' = storage
                  /\ mem' = mem
            /\ SaveRaised(l) =>
                  /\ mem' = mem
                  /\ \A path \in (DOMAIN storage) \cup (DOMAIN storage') :
                        \/ path = PathOf(Produces[l.step_name], T)
                        \/ /\ path \in DOMAIN storage
                           /\ path \in DOMAIN storage'
                           /\ storage'[path] = storage[path]
       ]_vars

\* a step has failed in its handler on a date that has stored artifacts
C4_Witness ==
    /\ last.error # None
    /\ LoadReturned(last)
    /\ ~SaveRaised(last)
    /\ \E n \in ComponentNames : Stored(n, last.target_date) # None

-----------------------------------------------------------------------------
(* C5 as stated: an exception a data source, a user component or the       *)
(* exchange client raises inside a step handler ends the call with a       *)
(* StrategyEngineError carrying the running step, the target date and that *)
(* exception as original_error; it is the last call of the run_step and    *)
(* the only one that raised, and the handler does not repeat the call.     *)
CollaboratorOps ==
    {"fetch", "calculate", "construct", "create_entry", "create_exit",
     "fetch_positions", "submit_orders"}

IsWrapping(error, step_name, target_date, exc) ==
    /\ "cls" \in DOMAIN error
    /\ error.cls = "StrategyEngineError"
    /\ error.step_name = step_name
    /\ error.target_date = target_date
    /\ error.original_error = exc

NotRepeated(l, i) ==
    /\ i = Len(l.calls)
    /\ Raised(l) = {i}
    /\ \A j \in (DOMAIN l.calls) \ {i} :
          ~(/\ l.calls[j].site = "handler"
            /\ l.calls[j].op = l.calls[i].op
            /\ l.calls[j].args = l.calls[i].args)

C5_AlwaysWrapped ==
    [][Called =>
        LET l == last'
        IN  \A i \in Raised(l) :
              (l.calls[i].site = "handler" /\ l.calls[i].op \in CollaboratorOps) =>
                  /\ IsWrapping(l.error, l.step_name, l.target_date, l.calls[i].exc)
                  /\ NotRepeated(l, i)
       ]_vars

(* C5 as amended: the same for every exception that is not itself a        *)
(* StrategyEngineError; a StrategyEngineError raised by the collaborator   *)
(* reaches the caller as it was raised.                                    *)
C5_ErrorWrapping ==
    [][Called =>
        LET l == last'
        IN  \A i \in Raised(l) :
              (l.calls[i].site = "handler" /\ l.calls[i].op \in CollaboratorOps) =>
                  /\ IF l.calls[i].exc.cls = "StrategyEngineError"
                     THEN l.error = l.calls[i].exc
                     ELSE IsWrapping(l.error, l.step_name, l.target_date, l.calls[i].exc)
                  /\ NotRepeated(l, i)
       ]_vars

\* submit_orders has raised and the call ended with the wrapping error
C5_Witness ==
    /\ last.step_name = SUBMIT_EXIT_ORDERS
    /\ \E i \in Raised(last) :
          /\ last.calls[i].op = "submit_orders"
          /\ last.calls[i].exc = Exc("ExchangeError")
          /\ IsWrapping(last.error, SUBMIT_EXIT_ORDERS, last.target_date,
                        last.calls[i].exc)

-----------------------------------------------------------------------------
(* C6: every exception the exchange client raises at any point of          *)
(* run_step(T, s), the fetch_positions call of the context reload          *)
(* included, reaches the caller as StrategyEngineError carrying s and T.   *)
IsEngineErrorOf(error, step_name, target_date) ==
    /\ "cls" \in DOMAIN error
    /\ error.cls = "StrategyEngineError"
    /\ error.step_name = step_name
    /\ error.target_date = target_date

C6_ExchangeErrorsWrapped ==
    [][Called =>
        LET l == last'
        IN  \A i \in Raised(l) :
              l.calls[i].op \in {"fetch_positions", "submit_orders"} =>
                  IsEngineErrorOf(l.error, l.step_name, l.target_date)
       ]_vars

-----------------------------------------------------------------------------
(* C7 as stated, for every store the engine accepts: when no signals were  *)
(* saved for the date of T (they were saved for other dates at most),      *)
(* CONSTRUCT_PORTFOLIO for T fails, with the missing-prerequisite error    *)
(* once the reload has returned, and the constructor is not called.        *)
C7_KeyedByDateEveryStore ==
    [][Called =>
        LET l == last'
            T == l.target_date
        IN  (l.step_name = CONSTRUCT_PORTFOLIO /\ <<"signals", DateStr(T)>> \notin saved) =>
                /\ l.error # None
                /\ LoadReturned(l) => l.error = PrerequisiteMissing(CONSTRUCT_PORTFOLIO, T)
                /\ CallsOf(l, "construct") = {}
       ]_vars

(* C7 as amended: the same for ContextStore only. *)
C7_KeyedByDateContextStore ==
    [][(Called /\ store_type = "ContextStore") =>
        LET l == last'
            T == l.target_date
        IN  (l.step_name = CONSTRUCT_PORTFOLIO /\ <<"signals", DateStr(T)>> \notin saved) =>
                /\ l.error # None
                /\ LoadReturned(l) => l.error = PrerequisiteMissing(CONSTRUCT_PORTFOLIO, T)
                /\ CallsOf(l, "construct") = {}
       ]_vars

\* signals are saved for another date only and CONSTRUCT_PORTFOLIO has
\* failed on the missing prerequisite
C7_Witness ==
    /\ store_type = "ContextStore"
    /\ last.step_name = CONSTRUCT_PORTFOLIO
    /\ <<"signals", DateStr(last.target_date)>> \notin saved
    /\ \E D \in Datetimes : <<"signals", DateStr(D)>> \in saved
    /\ last.error = PrerequisiteMissing(CONSTRUCT_PORTFOLIO, last.target_date)

-----------------------------------------------------------------------------
(* C8: every artifact in the store satisfies the schema of its kind (a     *)
(* table violating it makes the producing step fail and is not stored).    *)
C8_StoredArtifactsValid ==
    /\ \A path \in DOMAIN storage : SchemaOf(path[2], storage[path])
    /\ \A n \in ComponentNames : mem[n] # None => SchemaOf(n, mem[n])

-----------------------------------------------------------------------------
(* C9: with ContextStore a successful run_step(T, s) changes at most the   *)
(* entry of the kind s produces for T; every other kind and date keeps its *)
(* presence and value, and the submit steps change no entry.               *)
C9_SuccessfulStepFrame ==
    [][(Called /\ last'.error = None /\ store_type = "ContextStore") =>
        LET s == last'.step_name
            T == last'.target_date
        IN  /\ \A path \in (DOMAIN storage) \cup (DOMAIN storage') :
                  \/ s \in DOMAIN Produces /\ path = PathOf(Produces[s], T)
                  \/ /\ path \in DOMAIN storage
                     /\ path \in DOMAIN storage'
                     /\ storage'[path] = storage[path]
            /\ s \in {SUBMIT_ENTRY_ORDERS, SUBMIT_EXIT_ORDERS} => storage' = storage
       ]_vars

\* CALCULATE_SIGNALS has been run again for a date whose portfolio_plan is
\* stored
C9_Witness ==
    /\ store_type = "ContextStore"
    /\ last.step_name = CALCULATE_SIGNALS
    /\ last.error = None
    /\ Stored("portfolio_plan", last.target_date) # None

-----------------------------------------------------------------------------
(* C10: run_steps runs run_step for the names of its list in list order,   *)
(* from the first on, for its target date; the first step that raises ends *)
(* the loop with that exception, no later name is run, and the store is    *)
(* left as the steps before it wrote it.                                   *)
C10_RunStepsHaltsAtFirstFailure ==
    [][/\ (pending = None /\ pending' # None) => pending'.index = 1
       /\ (pending # None /\ pending' # None) =>
             /\ Called
             /\ pending' = [pending EXCEPT !.index = @ + 1]
       /\ (Called /\ pending # None) =>
             /\ last'.step_name = pending.step_names[pending.index]
             /\ last'.target_date = pending.target_date
             /\ last'.error # None =>
                   /\ pending' = None
                   /\ (DOMAIN storage) \subseteq (DOMAIN storage')
                   /\ \A n \in ComponentNames : mem[n] # None => mem'[n] # None
                   /\ ~SaveRaised(last') => (storage' = storage /\ mem' = mem)
             /\ last'.error = None =>
                   pending' = IF pending.index < Len(pending.step_names)
                              THEN [pending EXCEPT !.index = @ + 1]
                              ELSE None
      ]_vars

\* the second step of a list has raised after the first one stored its
\* artifact
C10_Witness ==
    /\ last.via = "run_steps"
    /\ last.index = 2
    /\ last.error # None
    /\ pending = None
    /\ last.step_names[1] \in DOMAIN Produces
    /\ Stored(Produces[last.step_names[1]], last.target_date) # None

-----------------------------------------------------------------------------
(* C11: run_step with a step_name that is not a StepName member raises     *)
(* ValueError before anything else happens: no call of the store, of the   *)
(* exchange client or of a component is made, the store, the exchange and  *)
(* engine._context are as they were.                                       *)
C11_InvalidStepName ==
    [][(Called /\ last'.step_name \notin StepName) =>
        /\ last'.error = Exc("ValueError")
        /\ last'.calls = <<>>
        /\ ctx' = ctx
        /\ storage' = storage
        /\ mem' = mem
        /\ positions' = positions
       ]_vars

\* an engine holding artifacts in memory was called with an invalid name
C11_Witness ==
    /\ last.step_name = "invalid_step"
    /\ last.held # {}
    /\ ctx # None

-----------------------------------------------------------------------------
(* C12: once the context reload has returned with an orders table stored   *)
(* for T, SUBMIT_ENTRY_ORDERS / SUBMIT_EXIT_ORDERS calls submit_orders     *)
(* exactly once, with that table, when it has a row, and not at all when   *)
(* it is empty; the step ends without error unless submit_orders raised.   *)
C12_SubmitOnceOrSkip ==
    [][(Called /\ last'.step_name \in {SUBMIT_ENTRY_ORDERS, SUBMIT_EXIT_ORDERS}
               /\ LoadReturned(last')
               /\ Stored(Prerequisite[last'.step_name], last'.target_date) # None) =>
        LET l == last'
            orders == Stored(Prerequisite[l.step_name], l.target_date)
            submits == CallsOf(l, "submit_orders")
        IN  /\ Height(orders) > 0 =>
                  /\ Cardinality(submits) = 1
                  /\ \A i \in submits : l.calls[i].args = <<orders>>
            /\ Height(orders) = 0 => submits = {}
            /\ (l.error = None) <=> (Raised(l) = {})
       ]_vars

\* a stored table with a row was submitted, once, and the step succeeded
C12_Witness ==
    /\ last.step_name \in {SUBMIT_ENTRY_ORDERS, SUBMIT_EXIT_ORDERS}
    /\ last.error = None
    /\ Cardinality(CallsOf(last, "submit_orders")) = 1
    /\ \E i \in CallsOf(last, "submit_orders") :
          /\ Height(last.calls[i].args[1]) > 0
          /\ last.calls[i].args[1]
                = Stored(Prerequisite[last.step_name], last.target_date)

-----------------------------------------------------------------------------
(* C13: ContextStore round trip, last write wins.  A save_* call that      *)
(* returns makes load(D) hand back the saved table for its kind on every   *)
(* datetime D of its date and changes what load returns for no other kind  *)
(* or date (a save that raises changes no other entry either); exists(D)   *)
(* is true, and load(D) is not None, exactly when some kind has been saved *)
(* for the date of D; load and exists return what the store holds.         *)
C13_RoundTripLastWriteWins ==
    [][(store_type = "ContextStore" /\ ncalls' = ncalls + 1) =>
        LET l == last'
            c == l.calls[1]
        IN  /\ l.via = "save" =>
                  \A n \in ComponentNames, D \in Datetimes :
                      IF n = c.args[1] /\ DateStr(D) = DateStr(c.args[2])
                      THEN c.exc = None =>
                             StoredIn(store_type', storage', mem', n, D) = c.args[3]
                      ELSE StoredIn(store_type', storage', mem', n, D) = Stored(n, D)
            /\ (l.via = "load" /\ l.error = None) =>
                  /\ c.ret # None =>
                        \A n \in ComponentNames : c.ret[n] = Stored(n, c.args[1])
                  /\ c.ret = None =>
                        \A n \in ComponentNames : Stored(n, c.args[1]) = None
            /\ l.via = "exists" =>
                  (c.ret <=> \E n \in ComponentNames : Stored(n, c.args[1]) # None)
            /\ \A D \in Datetimes :
                  LET everSaved == \E n \in ComponentNames : <<n, DateStr(D)>> \in saved'
                  IN  /\ ContextStore_exists(storage', D) <=> everSaved
                      /\ (ContextStore_load(storage', D, None) # None) <=> everSaved
       ]_vars

\* after two saves a load has handed back the two saved tables and nothing
\* for the kinds never saved
C13_Witness ==
    /\ store_type = "ContextStore"
    /\ last.via = "load"
    /\ last.error = None
    /\ last.calls[1].ret # None
    /\ last.calls[1].ret.signals = SigNoSymbol
    /\ last.calls[1].ret.exit_orders = OrdSell
    /\ last.calls[1].ret.portfolio_plan = None
    /\ last.calls[1].ret.entry_orders = None

-----------------------------------------------------------------------------
(* C14: ContextStore.load_latest, when it returns, returns None exactly    *)
(* when signals were never saved, and otherwise the context of the latest  *)
(* day signals were saved for, whatever other kinds were saved and for     *)
(* which days.                                                             *)
C14_LoadLatestFollowsSignals ==
    [][(store_type = "ContextStore" /\ ncalls' = ncalls + 1
            /\ last'.via = "load_latest" /\ last'.error = None) =>
        LET ret == last'.calls[1].ret
            days == {k[2] : k \in {k \in saved : k[1] = "signals"}}
        IN  /\ (ret = None) <=> (days = {})
            /\ days # {} =>
                  /\ DateStr(ret.current_datetime) = Max(days)
                  /\ \A D \in Datetimes :
                        DateStr(D) = Max(days) =>
                            \A n \in ComponentNames : ret[n] = Stored(n, D)
       ]_vars

\* load_latest has returned the context of a day with signals although
\* another kind was saved for a later day
C14_Witness ==
    /\ store_type = "ContextStore"
    /\ last.via = "load_latest"
    /\ last.error = None
    /\ last.calls[1].ret # None
    /\ last.calls[1].ret.signals # None
    /\ \E k \in saved : k[2] > DateStr(last.calls[1].ret.current_datetime)

-----------------------------------------------------------------------------
(* C15: positions are never persisted.  Nothing a store holds is a         *)
(* positions table; a context that the reload of a run_step gets from the  *)
(* store carries the positions fetch_positions returned during that load,  *)
(* which are the positions the exchange holds at that moment, and so do    *)
(* the positions handed to the portfolio constructor and the order         *)
(* creators.                                                               *)
IsPositions(df) == df # None /\ "version" \in DOMAIN df

C15_PositionsNeverPersisted ==
    [][Called =>
        LET l == last'
        IN  /\ \A path \in DOMAIN storage' :
                  path[2] \in ComponentNames /\ ~IsPositions(storage'[path])
            /\ \A n \in ComponentNames : ~IsPositions(mem'[n])
            /\ (LoadReturned(l) /\ l.calls[1].ret # None) =>
                  /\ l.calls[2].op = "fetch_positions"
                  /\ l.calls[1].ret.current_positions = l.calls[2].ret
                  /\ l.calls[2].ret = PositionsFrame(positions)
            /\ \A i \in CallsOf(l, "construct") :
                  l.calls[i].args[2] = PositionsFrame(positions)
            /\ \A i \in CallsOf(l, "create_entry") \cup CallsOf(l, "create_exit") :
                  l.calls[i].args[Len(l.calls[i].args) - 1] = PositionsFrame(positions)
       ]_vars

\* the exchange positions have changed since the engine was built and the
\* context just reloaded from the store carries the changed positions
C15_Witness ==
    /\ positions > 0
    /\ LoadReturned(last)
    /\ last.calls[1].ret # None
    /\ last.calls[1].ret.current_positions = PositionsFrame(positions)

-----------------------------------------------------------------------------
(* C16: single-process and multi-process execution are equivalent.  When   *)
(* the steps run_steps has run on one engine are run again from the same   *)
(* store and exchange by a new engine per step, the collaborators          *)
(* answering alike, every step makes the same calls with the same          *)
(* arguments, ends the same way and leaves the same store.                 *)
C16_SingleMultiProcessEquivalent ==
    [][(replay.phase = "multi" /\ Called) =>
        LET done == replay.trace[pending.index]
        IN  /\ last'.calls = done.calls
            /\ last'.error = done.error
            /\ storage' = done.storage
            /\ mem' = done.mem
       ]_vars

\* two steps run by one engine have both been run again by engines of
\* their own, the second one consuming what the first one stored
C16_Witness ==
    /\ replay.phase = "done"
    /\ Len(replay.trace) = 2
    /\ replay.trace[2].error = None
    /\ CallsOf(replay.trace[2], "construct") # {}
    /\ storage = replay.trace[2].storage
    /\ mem = replay.trace[2].mem

-----------------------------------------------------------------------------------------------------------------------------------------------------
(* C17: processes working on different days over one ContextStore do not   *)
(* interfere, however the store and exchange calls of their run_step calls *)
(* interleave.  A process reads and writes only paths of its own day, and  *)
(* for each day the shared store holds exactly the artifacts that the run  *)
(* of that day's calls alone, with the same collaborator answers, leaves   *)
(* in a store of its own; what a call in progress has read and holds in    *)
(* its context, and the way its checks turned out, are those of the run    *)
(* alone as well.                                                          *)
C17_DaysDoNotInterfere ==
    /\ replay.agree
    /\ \A p \in Procs :
          /\ \A path \in replay.paths[p] : path[3] = FirstDay + p - 1
          /\ \A path \in (DOMAIN storage) \cup (DOMAIN replay.storage[p]) :
                (path[3] = FirstDay + p - 1 \/ path \in DOMAIN replay.storage[p]) =>
                    /\ path \in DOMAIN storage
                    /\ path \in DOMAIN replay.storage[p]
                    /\ storage[path] = replay.storage[p][path]
          /\ procs[p].read = procs[p].solo_read
          /\ procs[p].context = procs[p].solo_context
    /\ \A path \in DOMAIN storage : \E p \in Procs : path[3] = FirstDay + p - 1

\* a process took the positions in its handler, the other process then
\* submitted orders it had stored for its own day and they were filled, and
\* the first process is now about to save what its component returned: the
\* calls of the two run_step calls have interleaved
C17_Witness ==
    \E p \in Procs :
       /\ procs[p].pc = "save"
       /\ procs[p].current_positions # None
       /\ procs[p].current_positions.version < positions
       /\ last.via = "process"
       /\ last.error = None
       /\ last.step_name \in {SUBMIT_ENTRY_ORDERS, SUBMIT_EXIT_ORDERS}
       /\ last.target_date \notin DatetimesOf(p)
       /\ \E n \in ComponentNames : Stored(n, last.target_date) # None

-----------------------------------------------------------------------------
(* Vocabulary of the exchange properties *)

\* this step is a submit_orders call
Submitted == last'.via = "submit_orders"

\* the calls of op a submit_orders call has made for the rows of its table
ProcessCalls(l, op) == {c \in {l.calls[i] : i \in 2 .. Len(l.calls)} : c.op = op}

\* the cached bars of a symbol after the cursor, and up to the cursor
BarsAfter(ex, symbol) ==
    IF ex.ohlcv_cache = None \/ ex.current_datetime = NoDatetime
    THEN {}
    ELSE {b \in ex.ohlcv_cache.rows :
             b.symbol = symbol /\ b.datetime > ex.current_datetime}
BarsUpTo(ex, symbol) ==
    IF ex.ohlcv_cache = None \/ ex.current_datetime = NoDatetime
    THEN {}
    ELSE {b \in ex.ohlcv_cache.rows :
             b.symbol = symbol /\ b.datetime <= ex.current_datetime}
Earliest(bars) == {b \in bars : \A o \in bars : b.datetime <= o.datetime}
Latest(bars) == {b \in bars : \A o \in bars : b.datetime >= o.datetime}

\* the fills the _process_* calls of a submit_orders call handed back, in
\* the order of the rows
FillsOf(l) ==
    LET Filled(c) == c.op # "submit_orders" /\ c.ret # None
        filled == SelectSeq(l.calls, Filled)
    IN [i \in 1 .. Len(filled) |-> filled[i].ret]

-----------------------------------------------------------------------------
(* C18: market-order bar selection.  With the cursor at T, a market order  *)
(* under next_open fills against the earliest cached bar of its symbol     *)
(* with datetime > T, at that bar's open, and under current_close against  *)
(* the latest bar with datetime <= T, at that bar's close (the base price, *)
(* to which the slippage of the side is applied); the fill carries the     *)
(* datetime of that bar; when there is no such bar the order yields no     *)
(* fill, and a table of market orders only raises nothing and records      *)
(* exactly the fills of its rows.                                          *)
C18_MarketOrderBarSelection ==
    [][Submitted =>
        /\ \A c \in ProcessCalls(last', "_process_market_order") :
              LET next_open == exchange.config.market_fill_price_type = "next_open"
                  chosen == IF next_open
                            THEN Earliest(BarsAfter(exchange, c.args[1]))
                            ELSE Latest(BarsUpTo(exchange, c.args[1]))
              IN IF chosen = {}
                 THEN c.ret = None
                 ELSE /\ c.ret # None
                      /\ \E B \in chosen :
                            /\ c.ret.timestamp = B.datetime
                            /\ c.ret.filled_price
                                 = apply_slippage(exchange.config,
                                                  IF next_open THEN B.open ELSE B.close,
                                                  c.args[2])
        /\ LET orders == last'.calls[1].args[1]
           IN (/\ OrderSchema_validate(orders)
               /\ \A i \in 1 .. Len(orders.rows) : orders.rows[i].order_type = "market")
                  => /\ last'.error = None
                     /\ Cardinality(ProcessCalls(last', "_process_market_order")) > 0
                            <=> orders.rows # <<>>
                     /\ exchange'.fill_history
                          = IF FillsOf(last') = <<>>
                            THEN exchange.fill_history
                            ELSE Append(exchange.fill_history, FillsOf(last'))
      ]_vars

\* under next_open with slippage, a table of two market orders was
\* submitted with two bars of AAPL after the cursor and none of GOOG: the
\* AAPL order was filled at the first of them, the GOOG order was not
\* filled, and nothing was raised
C18_Witness ==
    /\ last.via = "submit_orders"
    /\ last.error = None
    /\ exchange.config.market_fill_price_type = "next_open"
    /\ exchange.config.slippage_bps > 0
    /\ Cardinality(BarsAfter(exchange, "AAPL")) = 2
    /\ BarsAfter(exchange, "GOOG") = {}
    /\ Len(last.calls) = 3
    /\ \E c \in ProcessCalls(last, "_process_market_order") :
          /\ c.args[1] = "AAPL"
          /\ c.ret # None
          /\ c.ret.timestamp = 1
          /\ exchange.fill_history = <<<<c.ret>>>>
    /\ \E c \in ProcessCalls(last, "_process_market_order") :
          c.args[1] = "GOOG" /\ c.ret = None

-----------------------------------------------------------------------------
(* C19: the fill condition of a limit order is a strict inequality on the  *)
(* bar it is judged against (the bar _process_limit_order takes from the   *)
(* cache).  A limit buy is filled exactly when limit_price > low and a     *)
(* limit sell exactly when limit_price < high, so a price equal to the low *)
(* (buy) or the high (sell) is not filled; a fill is at limit_price        *)
(* itself, whatever slippage_bps is, and carries the datetime of that bar. *)
C19_LimitStrictInequality ==
    [][Submitted =>
        \A c \in ProcessCalls(last', "_process_limit_order") :
            \A B \in Earliest(BarsAfter(exchange, c.args[1])) :
                LET side == c.args[2]
                    limit_price == c.args[4]
                IN /\ side = "buy" => (c.ret # None <=> limit_price > B.low)
                   /\ side = "sell" => (c.ret # None <=> limit_price < B.high)
                   /\ c.ret # None =>
                         /\ c.ret.filled_price = limit_price
                         /\ c.ret.timestamp = B.datetime
      ]_vars

\* with slippage configured, a limit buy at the low of the next bar was
\* not filled and a limit sell below its high was filled at its limit,
\* stamped with the datetime of that bar
C19_Witness ==
    /\ last.via = "submit_orders"
    /\ last.error = None
    /\ exchange.config.slippage_bps > 0
    /\ \E B \in Earliest(BarsAfter(exchange, "AAPL")) :
          /\ \E c \in ProcessCalls(last, "_process_limit_order") :
                /\ c.args[1] = "AAPL"
                /\ c.args[2] = "buy"
                /\ c.args[4] = B.low
                /\ c.ret = None
          /\ \E c \in ProcessCalls(last, "_process_limit_order") :
                /\ c.args[1] = "AAPL"
                /\ c.args[2] = "sell"
                /\ c.args[4] < B.high
                /\ c.ret # None
                /\ c.ret.filled_price = c.args[4]
                /\ c.ret.timestamp = B.datetime
                /\ exchange.fill_history = <<<<c.ret>>>>

-----------------------------------------------------------------------------
(* C20: the judging bar of a limit order follows limit_fill_bar_type.      *)
(* With next_bar the order is judged against the earliest cached bar of    *)
(* its symbol with datetime > cursor, with current_bar against the latest  *)
(* bar with datetime <= cursor: the order is filled exactly when such a    *)
(* bar exists and its price is strictly inside the bar's low (buy) or high *)
(* (sell), and the fill carries the datetime of that bar.                  *)
C20_JudgingBarFollowsSetting ==
    [][Submitted =>
        \A c \in ProcessCalls(last', "_process_limit_order") :
            LET judging == IF exchange.config.limit_fill_bar_type = "next_bar"
                           THEN Earliest(BarsAfter(exchange, c.args[1]))
                           ELSE Latest(BarsUpTo(exchange, c.args[1]))
                Fills(B) == IF c.args[2] = "buy" THEN c.args[4] > B.low
                            ELSE c.args[4] < B.high
            IN /\ c.ret # None <=> \E B \in judging : Fills(B)
               /\ c.ret # None => \E B \in judging : c.ret.timestamp = B.datetime
      ]_vars

-----------------------------------------------------------------------------
(* C21: slippage and commission.  A market fill is priced at               *)
(* base * (1 + s) for a buy and base * (1 - s) for a sell, s being         *)
(* slippage_bps / 10000 and base the open or close of the bar it is filled *)
(* against: a sell is priced at or below the base, a buy at or above it,   *)
(* and both at the base when slippage_bps = 0.  Every fill, market or      *)
(* limit, carries commission = filled_price * quantity * commission_rate.  *)
C21_SlippageAndCommission ==
    [][Submitted =>
        /\ \A c \in ProcessCalls(last', "_process_market_order") :
              c.ret # None =>
                 LET next_open == exchange.config.market_fill_price_type = "next_open"
                     chosen == IF next_open
                               THEN Earliest(BarsAfter(exchange, c.args[1]))
                               ELSE Latest(BarsUpTo(exchange, c.args[1]))
                     bps == exchange.config.slippage_bps
                 IN \E B \in chosen :
                       LET base == IF next_open THEN B.open ELSE B.close
                       IN /\ c.args[2] = "buy" =>
                                /\ c.ret.filled_price * 10000 = base * (10000 + bps)
                                /\ c.ret.filled_price >= base
                          /\ c.args[2] = "sell" =>
                                /\ c.ret.filled_price * 10000 = base * (10000 - bps)
                                /\ c.ret.filled_price <= base
                          /\ bps = 0 => c.ret.filled_price = base
        /\ \A i \in 1 .. Len(FillsOf(last')) :
              LET fill == FillsOf(last')[i]
              IN fill.commission
                   = fill.filled_price * fill.filled_quantity
                       * exchange.config.commission_rate
      ]_vars

\* with slippage and commission configured, a market buy and a market sell
\* of one symbol were filled in one table against the same bar: the buy
\* above the sell, each with a commission of its own price
C21_Witness ==
    /\ last.via = "submit_orders"
    /\ exchange.config.slippage_bps > 0
    /\ exchange.config.commission_rate > 0
    /\ \E b, s \in ProcessCalls(last, "_process_market_order") :
          /\ b.args[2] = "buy"
          /\ s.args[2] = "sell"
          /\ b.args[1] = s.args[1]
          /\ b.ret # None
          /\ s.ret # None
          /\ b.ret.filled_price > s.ret.filled_price
          /\ b.ret.commission > s.ret.commission
          /\ s.ret.commission > 0
          /\ exchange.fill_history = <<FillsOf(last)>>

-----------------------------------------------------------------------------
(* C22: the fill history is append-only.  Over every sequence of           *)
(* load_ohlcv, set_current_datetime, submit_orders, fetch_fills and        *)
(* fetch_positions calls, every step leaves the frames already in the      *)
(* history where and as they were, and only a submit_orders call adds one. *)
C22_FillLogAppendOnly ==
    [][/\ Len(exchange'.fill_history) >= Len(exchange.fill_history)
       /\ SubSeq(exchange'.fill_history, 1, Len(exchange.fill_history))
            = exchange.fill_history
       /\ exchange'.fill_history # exchange.fill_history =>
             /\ last'.via = "submit_orders"
             /\ Len(exchange'.fill_history) = Len(exchange.fill_history) + 1
      ]_vars

\* a second table has been filled after the first, and the history of both
\* is still there after fetch_positions has read it
C22_Witness ==
    /\ last.via = "fetch_positions"
    /\ Len(exchange.fill_history) = 2
    /\ NumFills(exchange) = MaxFills
    /\ last.calls[1].ret # <<>>

-----------------------------------------------------------------------------
(* C23: fetch_fills(start, end) returns exactly the fills of the history   *)
(* whose timestamp t has start <= t <= end, in the order of the history,   *)
(* so a fill stamped with a later bar is absent from a range that ends     *)
(* before it; the call changes nothing of the client, so a second call     *)
(* with the same bounds and no submit_orders in between returns the same.  *)
C23_FetchFillsInclusiveRepeatable ==
    [][last'.via = "fetch_fills" =>
        LET start == last'.calls[1].args[1]
            end == last'.calls[1].args[2]
            ret == last'.calls[1].ret
            log == concat(exchange.fill_history)
            within == {i \in 1 .. Len(log) :
                          start <= log[i].timestamp /\ log[i].timestamp <= end}
        IN /\ exchange' = exchange
           /\ Len(ret) = Cardinality(within)
           /\ \A i \in within : ret[1 + Cardinality({j \in within : j < i})] = log[i]
      ]_vars

\* the history holds a fill stamped 1 and a fill stamped 2, and
\* fetch_fills(1, 1) has returned the first without the second
C23_Witness ==
    /\ last.via = "fetch_fills"
    /\ last.calls[1].args = <<1, 1>>
    /\ Len(last.calls[1].ret) = 1
    /\ last.calls[1].ret[1].timestamp = 1
    /\ \E i \in 1 .. NumFills(exchange) : concat(exchange.fill_history)[i].timestamp = 2
    /\ exchange.config.market_fill_price_type = "next_open"

-----------------------------------------------------------------------------
(* Vocabulary of the position properties *)

\* buy = +, sell = -
Signed(fill) ==
    IF fill.side = "buy" THEN fill.filled_quantity ELSE -fill.filled_quantity

\* the five rules: the position [quantity, avg_price = num / den] of a
\* symbol after one more of its fills
AfterFill(pos, fill) ==
    LET qty == pos.quantity + Signed(fill)
        Flat == [quantity |-> 0, num |-> 0, den |-> 1]
        At(price) == [quantity |-> qty, num |-> price, den |-> 1]
    IN CASE pos.quantity = 0 -> At(fill.filled_price)
         [] pos.quantity * Signed(fill) > 0 ->
              \* quantity-weighted average of the two prices
              [quantity |-> qty,
               num |-> pos.quantity * pos.num + Signed(fill) * fill.filled_price * pos.den,
               den |-> qty * pos.den]
         [] pos.quantity * Signed(fill) < 0 /\ pos.quantity * qty > 0 ->
              [pos EXCEPT !.quantity = qty]
         [] pos.quantity * Signed(fill) < 0 /\ qty = 0 -> Flat
         [] pos.quantity * Signed(fill) < 0 /\ pos.quantity * qty < 0 ->
              At(fill.filled_price)

\* the position of a symbol after its fills among the rows, in their order
RECURSIVE Replayed(_, _, _)
Replayed(rows, symbol, pos) ==
    IF rows = <<>>
    THEN pos
    ELSE Replayed(Tail(rows), symbol,
                  IF Head(rows).symbol = symbol THEN AfterFill(pos, Head(rows))
                  ELSE pos)

\* rows is the history in timestamp order
InTimestampOrder(rows, ex) ==
    LET log == concat(ex.fill_history)
    IN /\ Len(rows) = Len(log)
       /\ {rows[i] : i \in 1 .. Len(rows)} = {log[i] : i \in 1 .. Len(log)}
       /\ \A i, j \in 1 .. Len(rows) : i < j => rows[i].timestamp <= rows[j].timestamp

-----------------------------------------------------------------------------
(* C24: fetch_positions equals the replay of each symbol's fills in        *)
(* timestamp order under the five rules (open from flat, same-side         *)
(* addition with the quantity-weighted average price, partial reduction    *)
(* keeping the average price, close, flip to the remaining quantity at the *)
(* price of the flipping fill): for some order of the history by           *)
(* timestamp, the table holds for every symbol with fills the quantity and *)
(* the average price the rules give, unless the quantity is zero.          *)
C24_PositionsAreReplay ==
    [][last'.via = "fetch_positions" =>
        LET rows == last'.calls[1].args[1]
            ret == last'.calls[1].ret
            Flat == [quantity |-> 0, num |-> 0, den |-> 1]
        IN /\ InTimestampOrder(rows, exchange)
           /\ \A i, j \in 1 .. Len(ret) : ret[i].symbol = ret[j].symbol => i = j
           /\ \A symbol \in {rows[i].symbol : i \in 1 .. Len(rows)} :
                 LET pos == Replayed(rows, symbol, Flat)
                     shown == {i \in 1 .. Len(ret) : ret[i].symbol = symbol}
                 IN /\ pos.quantity = 0 => shown = {}
                    /\ pos.quantity # 0 =>
                          \E i \in shown :
                             /\ ret[i].quantity = pos.quantity
                             /\ ret[i].avg_price.num * pos.den
                                  = pos.num * ret[i].avg_price.den
           /\ \A i \in 1 .. Len(ret) : \E k \in 1 .. Len(rows) : rows[k].symbol = ret[i].symbol
      ]_vars

\* a buy of 10 at 500 stamped 1 and a sell of 20 at 900 stamped 2 have
\* flipped AAPL to -10 at 900, beside a position in GOOG
C24_Witness ==
    /\ last.via = "fetch_positions"
    /\ LET rows == last.calls[1].args[1]
           ret == last.calls[1].ret
       IN /\ Len(rows) = 3
          /\ \E i, j \in 1 .. 3 :
                /\ rows[i].symbol = "AAPL" /\ rows[i].side = "buy"
                /\ rows[i].filled_quantity = 10 /\ rows[i].filled_price = 500
                /\ rows[i].timestamp = 1
                /\ rows[j].symbol = "AAPL" /\ rows[j].side = "sell"
                /\ rows[j].filled_quantity = 20 /\ rows[j].filled_price = 900
                /\ rows[j].timestamp = 2
          /\ Len(ret) = 2
          /\ \E i \in 1 .. 2 :
                /\ ret[i].symbol = "AAPL"
                /\ ret[i].quantity = -10
                /\ ret[i].avg_price = [num |-> 900, den |-> 1]

-----------------------------------------------------------------------------
(* C25: every row fetch_positions returns is a live position.  Its         *)
(* quantity is not zero and is the net signed quantity of the symbol's     *)
(* fills, so a symbol whose fills net to zero has no row and a symbol sold *)
(* short has a row with a negative quantity; its avg_price is strictly     *)
(* positive, for a long and for a short, the fill prices being positive.   *)
C25_PositionsAreLive ==
    [][last'.via = "fetch_positions" =>
        LET rows == last'.calls[1].args[1]
            ret == last'.calls[1].ret
            RECURSIVE Net(_, _)
            Net(fills, symbol) ==
                IF fills = <<>> THEN 0
                ELSE Net(Tail(fills), symbol)
                       + (IF Head(fills).symbol = symbol THEN Signed(Head(fills)) ELSE 0)
        IN /\ \A i \in 1 .. Len(ret) :
                 /\ ret[i].quantity # 0
                 /\ ret[i].quantity = Net(rows, ret[i].symbol)
                 /\ (\A k \in 1 .. Len(rows) : rows[k].filled_price > 0) =>
                       /\ ret[i].avg_price.num > 0
                       /\ ret[i].avg_price.den > 0
           /\ \A k \in 1 .. Len(rows) :
                 LET symbol == rows[k].symbol
                     shown == {i \in 1 .. Len(ret) : ret[i].symbol = symbol}
                 IN /\ Net(rows, symbol) = 0 => shown = {}
                    /\ Net(rows, symbol) < 0 => \E i \in shown : ret[i].quantity < 0
      ]_vars

\* AAPL was sold short and bought back in full, GOOG was bought: the table
\* has a row for GOOG and none for AAPL
C25_Witness ==
    /\ last.via = "fetch_positions"
    /\ LET rows == last.calls[1].args[1]
           ret == last.calls[1].ret
       IN /\ Len(rows) = 3
          /\ \E i, j \in 1 .. 3 :
                /\ i < j
                /\ rows[i].symbol = "AAPL" /\ rows[i].side = "sell"
                /\ rows[j].symbol = "AAPL" /\ rows[j].side = "buy"
                /\ rows[i].filled_quantity = rows[j].filled_quantity
                /\ rows[i].filled_price # rows[j].filled_price
          /\ Len(ret) = 1
          /\ ret[1].symbol = "GOOG"
          /\ ret[1].quantity > 0

-----------------------------------------------------------------------------
(* C26: every Order table OrderSchema.validate accepts satisfies, row by   *)
(* row, order_type = market <=> price is null, and order_type = limit =>   *)
(* price is not null: the tables submit_orders goes on to process after    *)
(* its validation have no limit order without a price and no market order  *)
(* with one.                                                               *)
C26_AcceptedOrdersPriceRule ==
    [][Submitted =>
        LET orders == last'.calls[1].args[1]
        IN OrderSchema_validate(orders) =>
              \A i \in 1 .. Len(orders.rows) :
                  /\ orders.rows[i].order_type = "market"
                        <=> orders.rows[i].price = "null"
                  /\ orders.rows[i].order_type = "limit"
                        => orders.rows[i].price # "null"
      ]_vars

-----------------------------------------------------------------------------
(* C27: submit_orders raises ValueError for a table that holds a limit     *)
(* order whose price is null, and a submit_orders call that raises records *)
(* nothing: the fill history after the call is the history before it, also *)
(* when rows before the offending one were filled.                         *)
C27_FailedBatchRecordsNothing ==
    [][Submitted =>
        LET orders == last'.calls[1].args[1]
        IN /\ (\E i \in 1 .. Len(orders.rows) :
                  /\ orders.rows[i].order_type = "limit"
                  /\ orders.rows[i].price = "null")
                 => last'.error = Exc("ValueError")
           /\ last'.error # None => exchange'.fill_history = exchange.fill_history
      ]_vars

\* a table whose first row was filled and whose second row is a limit
\* order without a price has raised ValueError, and the history holds the
\* fills of an earlier table only
C27_Witness ==
    /\ last.via = "submit_orders"
    /\ last.error = Exc("ValueError")
    /\ Len(last.calls[1].args[1].rows) = 2
    /\ last.calls[1].args[1].rows[2].order_type = "limit"
    /\ last.calls[1].args[1].rows[2].price = "null"
    /\ Len(last.calls) = 2
    /\ last.calls[2].ret # None
    /\ NumFills(exchange) = 1
    /\ concat(exchange.fill_history)[1].symbol # last.calls[2].ret.symbol

-----------------------------------------------------------------------------
(* Vocabulary of the data sources *)

\* this step is a _fetch_data_sources call
Fetched == last'.via = "_fetch_data_sources"

\* the ds.fetch call of the _fetch_data_sources call that has ended
FetchCall(l) == l.calls[2]

-----------------------------------------------------------------------------
(* C28: the window fetched from a data source with (offset_seconds,        *)
(* window_seconds) at target T has end = T - offset_seconds and            *)
(* start = end - window_seconds; its length is window_seconds > 0, both    *)
(* bounds are strictly increasing in T, end < T whenever                   *)
(* offset_seconds > 0, and offset one hour / window one hour / T = 10:00   *)
(* gives [08:00, 09:00].                                                   *)
C28_FetchWindow ==
    [][Fetched =>
        LET T == last'.target_date
            config == engine.data_sources.ohlcv.config
            start == FetchCall(last').args[1]
            end == FetchCall(last').args[2]
        IN /\ end = T - config.offset_seconds
           /\ start = end - config.window_seconds
           /\ end - start = config.window_seconds
           /\ end - start > 0
           /\ \A later \in FetchTargets :
                 later > T => /\ data_fetch_range(later, config)[1] > start
                              /\ data_fetch_range(later, config)[2] > end
           /\ config.offset_seconds > 0 => end < T
           /\ (config.offset_seconds = 1 /\ config.window_seconds = 1 /\ T = 10)
                 => (start = 8 /\ end = 9)
      ]_vars

\* the source with offset one hour and window one hour has been fetched at
\* 10:00, from 08:00 to 09:00
C28_Witness ==
    /\ last.via = "_fetch_data_sources"
    /\ last.target_date = 10
    /\ engine.data_sources.ohlcv.config.offset_seconds = 1
    /\ engine.data_sources.ohlcv.config.window_seconds = 1
    /\ FetchCall(last).args[1] = 8
    /\ FetchCall(last).args[2] = 9

\* the DataFrame a fetch of the data source filters: the file of a
\* ParquetDataSource, the data of a MockDataSource or its default data
SourceFrame(ds, start, symbols) ==
    IF ds.cls = "ParquetDataSource" THEN ds.file
    ELSE IF ds.data = None THEN generate_default_data(start, symbols)
    ELSE ds.data

\* the rows of a DataFrame that lie in [start, end] and are of the symbols
RowsWithin(df, start, end, symbols) ==
    LET within(row) ==
            /\ start <= row.datetime
            /\ row.datetime <= end
            /\ \E i \in 1 .. Len(symbols) : symbols[i] = row.symbol
    IN  SelectSeq(df.rows, within)

-----------------------------------------------------------------------------
(* C29: a fetch of a shipped data source returns rows with                 *)
(* start <= datetime <= end only, so the rows _fetch_data_sources gets at   *)
(* target T from a source with (offset, window), ParquetDataSource or      *)
(* MockDataSource, offset positive or negative, are exactly the rows of    *)
(* the source (of the symbols fetched) with                                *)
(* T - offset - window <= datetime <= T - offset.                          *)
C29_FetchContract ==
    [][(Fetched /\ last'.error = None) =>
        LET T == last'.target_date
            ds == engine.data_sources.ohlcv
            start == FetchCall(last').args[1]
            end == FetchCall(last').args[2]
            symbols == FetchCall(last').args[3]
            ret == FetchCall(last').ret
        IN /\ \A i \in 1 .. Len(ret.rows) :
                 start <= ret.rows[i].datetime /\ ret.rows[i].datetime <= end
           /\ ret.rows = RowsWithin(SourceFrame(ds, start, symbols),
                                    T - ds.config.offset_seconds - ds.config.window_seconds,
                                    T - ds.config.offset_seconds, symbols)
           /\ last'.calls[1].ret.ohlcv = ret
      ]_vars

-----------------------------------------------------------------------------
(* C30: with no universe configured (loop.universe is None) the engine     *)
(* fetches with an empty symbols list, and the shipped data source returns  *)
(* the rows of every symbol in the window it filters on, so the frame       *)
(* _fetch_data_sources hands on holds the data of all symbols.              *)
C30_EmptySymbolsMeansAll ==
    [][(Fetched /\ last'.error = None /\ engine.universe = None) =>
        LET ds == engine.data_sources.ohlcv
            start == FetchCall(last').args[1]
            end == FetchCall(last').args[2]
            symbols == FetchCall(last').args[3]
            ret == last'.calls[1].ret.ohlcv
            filtered == IF ds.cls = "ParquetDataSource"
                        THEN adjust_window_for_offset(ds.config, start, end)
                        ELSE <<start, end>>
        IN /\ symbols = <<>>
           /\ ret.rows = RowsWithin(SourceFrame(ds, start, symbols),
                                    filtered[1], filtered[2], FetchSymbols)
      ]_vars

-----------------------------------------------------------------------------
(* C31: run_all_steps(target_date) of a StrategyEngine runs the whole       *)
(* pipeline for the date: the call returns, and after it signals,           *)
(* portfolio_plan and a non-empty entry_orders are set in the context for   *)
(* the date and the orders have been submitted to the exchange client.      *)
C31_RunAllSteps ==
    [][last'.via = "run_all_steps" =>
         /\ last'.error = None
         /\ ctx' # None
         /\ ctx'.current_datetime = last'.target_date
         /\ ctx'.signals # None
         /\ ctx'.portfolio_plan # None
         /\ ctx'.entry_orders # None
         /\ Height(ctx'.entry_orders) > 0
         /\ \E i \in 1 .. Len(last'.calls) : last'.calls[i].op = "submit_orders"
      ]_vars

-----------------------------------------------------------------------------
(* C32: FullExitOrderCreator.create emits an exit order only for positions  *)
(* whose symbol has a row in the supplied OHLCV; a position whose symbol    *)
(* has no price data is skipped, so positions {AAPL, GOOGL} with OHLCV for  *)
(* AAPL only yield exactly one order, for AAPL.                             *)
C32_ExitOnlyWithPriceData ==
    [][(last'.via = "create" /\ last'.error = None) =>
        LET current_positions == last'.calls[1].args[1]
            ohlcv == last'.calls[1].args[2]
            orders == last'.calls[1].ret
            priced == {ohlcv.rows[i].symbol : i \in 1 .. Len(ohlcv.rows)}
            held == {current_positions.rows[i].symbol : i \in 1 .. Len(current_positions.rows)}
        IN /\ \A i \in 1 .. Len(orders.rows) : orders.rows[i].symbol \in priced
           /\ (/\ held = {"AAPL", "GOOGL"}
               /\ \A i \in 1 .. Len(current_positions.rows) :
                     current_positions.rows[i].quantity # "0.0"
               /\ priced = {"AAPL"})
                 => (Len(orders.rows) = 1 /\ orders.rows[1].symbol = "AAPL")
      ]_vars

-----------------------------------------------------------------------------
(* C33: only the presence of the prerequisite gates a step.  When no        *)
(* collaborator call raises, run_step(T, s) succeeds whenever the store     *)
(* holds the prerequisite artifact of s for T, and CALCULATE_SIGNALS and    *)
(* CREATE_EXIT_ORDERS succeed on any store content, the empty store         *)
(* included, whatever other steps have run before, in whatever order and    *)
(* however often.                                                           *)
C33_OnlyPrerequisiteGates ==
    [][(Called /\ last'.step_name \in StepName /\ Raised(last') = {}) =>
        LET s == last'.step_name
            T == last'.target_date
        IN  (\/ s \in {CALCULATE_SIGNALS, CREATE_EXIT_ORDERS}
             \/ Stored(Prerequisite[s], T) # None)
               => last'.error = None
      ]_vars

\* exit orders have been created and then submitted for a date for which
\* neither signals nor entry orders are stored
C33_Witness ==
    /\ last.step_name = SUBMIT_EXIT_ORDERS
    /\ last.error = None
    /\ CallsOf(last, "submit_orders") # {}
    /\ ncalls = 2
    /\ Stored("signals", last.target_date) = None
    /\ Stored("entry_orders", last.target_date) = None
    /\ Stored("exit_orders", last.target_date) # None

-----------------------------------------------------------------------------
(* C34: in every state reached from an empty store by run_step calls,       *)
(* successful or failing, for any dates, and for each date: if              *)
(* portfolio_plan is stored then signals is stored, and if entry_orders is  *)
(* stored then portfolio_plan is stored.                                    *)
C34_StoredArtifactsChain ==
    \A T \in Datetimes :
        /\ Stored("portfolio_plan", T) # None => Stored("signals", T) # None
        /\ Stored("entry_orders", T) # None => Stored("portfolio_plan", T) # None

\* entry orders are stored for a date after three run_step calls, in a
\* ContextStore that holds nothing for another date
C34_Witness ==
    /\ store_type = "ContextStore"
    /\ ncalls = 3
    /\ \E T \in Datetimes :
          /\ Stored("entry_orders", T) # None
          /\ Stored("portfolio_plan", T) # None
          /\ Stored("signals", T) # None
    /\ \E T \in Datetimes : Stored("signals", T) = None

-----------------------------------------------------------------------------
(* C35: whenever a step handler runs inside run_step(T, s), the             *)
(* current_datetime of the context is T, also when the store returned a     *)
(* context stamped with another datetime and when nothing was stored and a  *)
(* new context was created.                                                 *)
C35_HandlerSeesTargetDate ==
    [][(Called /\ last'.step_name \in StepName /\ LoadReturned(last')) =>
        /\ ctx' # None
        /\ ctx'.current_datetime = last'.target_date
      ]_vars

\* the store returned a context stamped with another datetime, the handler
\* ran and the context is stamped with the target
C35_Witness ==
    /\ last.step_name = CONSTRUCT_PORTFOLIO
    /\ last.error = None
    /\ last.calls[1].op = "load"
    /\ last.calls[1].ret # None
    /\ last.calls[1].ret.current_datetime # last.target_date
    /\ ctx.current_datetime = last.target_date

-----------------------------------------------------------------------------
(* Vocabulary of the replay *)

\* the fills of the log are in non-decreasing timestamp order symbol by
\* symbol
AppendedInTimestampOrder(log) ==
    \A i, j \in 1 .. Len(log) :
        (i < j /\ log[i].symbol = log[j].symbol) => log[i].timestamp <= log[j].timestamp

\* the place of a fill in a sequence of fills
PlaceIn(rows, fill) == CHOOSE k \in 1 .. Len(rows) : rows[k] = fill

(* C36 as stated: for every sequence of set_current_datetime and            *)
(* submit_orders calls with a non-decreasing cursor, the fills of each      *)
(* symbol are appended to the log in non-decreasing timestamp order, and    *)
(* fetch_positions processes the fills of each symbol in the order they     *)
(* were submitted.                                                          *)
C36_SubmissionOrderIsReplayOrder ==
    [][LET log == concat(exchange'.fill_history)
       IN /\ AppendedInTimestampOrder(log)
          /\ last'.via = "fetch_positions" =>
                LET fill_rows == last'.calls[1].args[1]
                IN \A i, j \in 1 .. Len(log) :
                      (i < j /\ log[i].symbol = log[j].symbol)
                         => PlaceIn(fill_rows, log[i]) < PlaceIn(fill_rows, log[j])
      ]_vars

(* C36: for every sequence of set_current_datetime and submit_orders calls  *)
(* with a non-decreasing cursor on a client that fills market orders at     *)
(* the next bar's open, the fills of each symbol are appended to the log    *)
(* in non-decreasing timestamp order, and fetch_positions processes fills   *)
(* of one symbol with different timestamps in the order they were           *)
(* submitted.                                                               *)
C36_ReplayOrderNextOpen ==
    [][exchange.config.market_fill_price_type = "next_open" =>
        LET log == concat(exchange'.fill_history)
        IN /\ AppendedInTimestampOrder(log)
           /\ last'.via = "fetch_positions" =>
                 LET fill_rows == last'.calls[1].args[1]
                 IN \A i, j \in 1 .. Len(log) :
                       (/\ i < j
                        /\ log[i].symbol = log[j].symbol
                        /\ log[i].timestamp # log[j].timestamp)
                          => PlaceIn(fill_rows, log[i]) < PlaceIn(fill_rows, log[j])
      ]_vars

\* fetch_positions has replayed a limit fill and a later market fill of one
\* symbol, made at different cursors and stamped with different bars
C36_Witness ==
    /\ last.via = "fetch_positions"
    /\ exchange.config.market_fill_price_type = "next_open"
    /\ Len(exchange.fill_history) = 2
    /\ LET log == concat(exchange.fill_history)
       IN /\ Len(log) = 2
          /\ log[1].symbol = log[2].symbol
          /\ log[1].timestamp < log[2].timestamp
          /\ log[1].filled_price = 700
          /\ last.calls[1].args[1] = log

-----------------------------------------------------------------------------
\* the sum of the signed filled quantities of the fills of a symbol
RECURSIVE SignedSum(_, _)
SignedSum(rows, symbol) ==
    IF rows = <<>> THEN 0
    ELSE (IF Head(rows).symbol = symbol THEN Signed(Head(rows)) ELSE 0)
         + SignedSum(Tail(rows), symbol)

(* C37: for every symbol the quantity fetch_positions reports is the sum    *)
(* of the signed filled quantities (buy +, sell -) of all fills of the      *)
(* symbol in the log, and the symbol is absent exactly when that sum is     *)
(* zero, in whatever order fills of one timestamp are replayed.             *)
C37_QuantityIsSignedSum ==
    [][last'.via = "fetch_positions" =>
        LET log == concat(exchange.fill_history)
            ret == last'.calls[1].ret
        IN \A symbol \in {"AAPL", "GOOG"} :
              LET listed == {i \in 1 .. Len(ret) : ret[i].symbol = symbol}
              IN IF SignedSum(log, symbol) = 0
                 THEN listed = {}
                 ELSE /\ Cardinality(listed) = 1
                      /\ \A i \in listed : ret[i].quantity = SignedSum(log, symbol)
      ]_vars

\* two fills of one symbol and one timestamp, a buy of 20 and then a sell
\* of 10, have been replayed the sell first, and the position is 10
C37_Witness ==
    /\ last.via = "fetch_positions"
    /\ LET log == concat(exchange.fill_history)
           fill_rows == last.calls[1].args[1]
           ret == last.calls[1].ret
       IN /\ Len(log) = 2
          /\ log[1].symbol = "AAPL" /\ log[2].symbol = "AAPL"
          /\ log[1].timestamp = log[2].timestamp
          /\ log[1].side = "buy" /\ log[1].filled_quantity = 20
          /\ log[2].side = "sell" /\ log[2].filled_quantity = 10
          /\ fill_rows[1] = log[2]
          /\ fill_rows[2] = log[1]
          /\ Len(ret) = 1
          /\ ret[1].quantity = 10

-----------------------------------------------------------------------------
(* C38: ContextStore keys artifacts by calendar date only.  Two target      *)
(* datetimes T1 and T2 of one day address the same four store entries, so   *)
(* a run_step for T2 loads the artifacts stored for T1, and a producing     *)
(* step for T2 that succeeds replaces the artifact stored for T1.           *)
C38_KeyedByDateOnly ==
    [][(Called /\ store_type = "ContextStore" /\ last'.step_name \in StepName
               /\ LoadReturned(last')) =>
        LET T2 == last'.target_date
            s == last'.step_name
            loaded == last'.calls[1].ret
            saves == CallsOf(last', "save")
        IN \A T1 \in Datetimes :
              DateStr(T1) = DateStr(T2) =>
                 /\ \A n \in ComponentNames :
                       /\ PathOf(n, T1) = PathOf(n, T2)
                       /\ Stored(n, T1) = IF loaded = None THEN None ELSE loaded[n]
                 /\ (last'.error = None /\ s \in DOMAIN Produces) =>
                       /\ saves # {}
                       /\ \A i \in saves :
                             StoredIn(store_type, storage', mem', Produces[s], T1)
                                = last'.calls[i].args[3]
      ]_vars

\* signals were stored for a day, and a CALCULATE_SIGNALS at the later
\* time of that day has loaded them and stored other signals, which are
\* now what the store holds for the earlier time of the day
C38_Witness ==
    /\ store_type = "ContextStore"
    /\ last.step_name = CALCULATE_SIGNALS
    /\ last.error = None
    /\ ncalls = 2
    /\ last.calls[1].ret # None
    /\ last.calls[1].ret.signals # None
    /\ \E T1 \in Datetimes :
          /\ T1 < last.target_date
          /\ DateStr(T1) = DateStr(last.target_date)
          /\ Stored("signals", T1) # last.calls[1].ret.signals
          /\ \A i \in CallsOf(last, "save") :
                Stored("signals", T1) = last.calls[i].args[3]

-----------------------------------------------------------------------------
(* StrategyEngine over a MockExchangeClient: the engine's exchange_client   *)
(* is the simulator, whose cursor and cache are set by its own methods      *)
(* set_current_datetime and load_ohlcv.                                     *)

\* the rows of the simulator's OHLCV source here: one AAPL bar at every
\* datetime a step can be run for, every price different
SimOhlcv ==
    {[symbol |-> "AAPL", datetime |-> t, open |-> 4 * t + 1, high |-> 4 * t + 3,
      low |-> 4 * t, close |-> 4 * t + 2] : t \in Datetimes}

\* the call of exchange_client.submit_orders a run_step made (0 for none)
SubmitCallOf(l) ==
    IF \E i \in DOMAIN l.calls : l.calls[i].op = "submit_orders"
    THEN CHOOSE i \in DOMAIN l.calls : l.calls[i].op = "submit_orders"
    ELSE 0

\* a run_step that submits the orders of a step and date once only
exchange_after_run_step_once(ex, T, l) ==
    IF SubmitCallOf(l) = 0 \/ ex.fill_history # <<>>
    THEN ex
    ELSE submit_orders(ex, l.calls[SubmitCallOf(l)].args[1]).exchange

\* a run_step that moves the cursor to its target date before it submits
exchange_after_run_step_at_target(ex, T, l) ==
    IF SubmitCallOf(l) = 0
    THEN ex
    ELSE submit_orders([ex EXCEPT !.current_datetime = T],
                       l.calls[SubmitCallOf(l)].args[1]).exchange

\* the client a run_step(T, s) with outcome l leaves: the only method that
\* changes it is submit_orders, called by the two submit handlers with the
\* orders of the context
exchange_after_run_step(ex, T, l) ==
    IF SubmitCallOf(l) = 0
    THEN ex
    ELSE submit_orders(ex, l.calls[SubmitCallOf(l)].args[1]).exchange

\* the calls of a run_step ended as the MockExchangeClient ends them:
\* fetch_positions returns, submit_orders raises what its validation raises
MockAnswers(ex, l) ==
    \A i \in DOMAIN l.calls :
        /\ l.calls[i].op = "fetch_positions" => l.calls[i].exc = None
        /\ l.calls[i].op = "submit_orders" =>
               l.calls[i].exc = submit_orders(ex, l.calls[i].args[1]).error

\* engine.run_step(T, s); positions counts the fills behind the frame
\* fetch_positions returns
SimRunStep ==
    /\ pending = None
    /\ last = NoCall
    /\ ncalls < MaxSimCalls
    /\ \E T \in Datetimes, s \in StepNameArgs :
          /\ run_step(T, s, "run_step")
          /\ MockAnswers(exchange, last')
          /\ exchange' = exchange_after_run_step(exchange, T, last')
          /\ positions' = positions + NumFills(exchange') - NumFills(exchange)
    /\ UNCHANGED <<pending, replay, procs, engine>>

\* exchange_client.load_ohlcv(start, end, symbols)
SimLoadOhlcv ==
    /\ last = NoCall
    /\ exchange.ohlcv_cache = None
    /\ exchange' = [exchange EXCEPT !.ohlcv_cache = [rows |-> SimOhlcv]]
    /\ last' = [NoCall EXCEPT !.via = "load_ohlcv"]
    /\ UNCHANGED <<store_type, storage, mem, ctx, positions, pending, saved, ncalls,
                   replay, procs, engine>>

\* exchange_client.set_current_datetime(dt)
SimSetCurrentDatetime ==
    /\ last = NoCall
    /\ \E dt \in Datetimes :
          /\ dt > exchange.current_datetime
          /\ exchange' = [exchange EXCEPT !.current_datetime = dt]
          /\ last' = [NoCall EXCEPT !.via = "set_current_datetime",
                                    !.target_date = dt]
    /\ UNCHANGED <<store_type, storage, mem, ctx, positions, pending, saved, ncalls,
                   replay, procs, engine>>

\* the first datetime a step can be run for
FirstDatetime == CHOOSE T \in Datetimes : \A U \in Datetimes : T <= U

\* the engine is constructed over an empty store, or over a store in which
\* an earlier process left the signals, the plan and the entry orders of
\* the first datetime
InitSim ==
    /\ store_type \in StoreTypes
    /\ \E stored \in BOOLEAN :
          /\ storage = IF stored /\ store_type = "ContextStore"
                       THEN ContextStore_save_component(
                                ContextStore_save_component(
                                    ContextStore_save_component(
                                        <<>>, FirstDatetime, SigGood, "signals"),
                                    FirstDatetime, PlanGood, "portfolio_plan"),
                                FirstDatetime, OrdBuy, "entry_orders")
                       ELSE <<>>
          /\ mem = IF stored /\ store_type = "InMemoryStore"
                   THEN InMemoryStore_save(
                            InMemoryStore_save(
                                InMemoryStore_save(
                                    InMemoryStore_init, FirstDatetime, SigGood, "signals"),
                                FirstDatetime, PlanGood, "portfolio_plan"),
                            FirstDatetime, OrdBuy, "entry_orders")
                   ELSE InMemoryStore_init
          /\ saved = IF stored
                     THEN {<<n, DateStr(FirstDatetime)>> :
                              n \in {"signals", "portfolio_plan", "entry_orders"}}
                     ELSE {}
    /\ ctx = None
    /\ positions = 0
    /\ pending = None
    /\ last = NoCall
    /\ ncalls = 0
    /\ replay = NoReplay
    /\ procs = <<>>
    /\ exchange \in {MockExchangeClient(config) : config \in LedgerConfigs}
    /\ engine = None

NextSim == SimRunStep \/ SimLoadOhlcv \/ SimSetCurrentDatetime \/ Return

SpecSim == InitSim /\ [][NextSim]_vars

-----------------------------------------------------------------------------
\* the submit steps and the artifact each of them submits
SubmitSteps == {SUBMIT_ENTRY_ORDERS, SUBMIT_EXIT_ORDERS}
SubmittedArtifact(s) == IF s = SUBMIT_ENTRY_ORDERS THEN "entry_orders" ELSE "exit_orders"

\* the sum of the signed quantities (buy +, sell -) the rows of an order
\* table ask for in a symbol
RECURSIVE OrderedQuantity(_, _)
OrderedQuantity(order_rows, symbol) ==
    IF order_rows = <<>> THEN 0
    ELSE (IF Head(order_rows).symbol # symbol THEN 0
          ELSE IF Head(order_rows).side = "buy" THEN Head(order_rows).quantity
          ELSE -Head(order_rows).quantity)
         + OrderedQuantity(Tail(order_rows), symbol)

\* the quantities fetch_positions can report for a symbol (0 when the symbol
\* is not listed), over the orders fills of one timestamp can be replayed in
PositionQuantities(ex, symbol) ==
    {LET ret == fetch_positions(fill_rows)
         listed == {i \in 1 .. Len(ret) : ret[i].symbol = symbol}
     IN IF listed = {} THEN 0 ELSE ret[CHOOSE i \in listed : TRUE].quantity :
        fill_rows \in sort_by_timestamp(concat(ex.fill_history))}

\* the bar a market order of the symbol would be matched against exists
BarAvailable(ex, symbol) ==
    /\ ex.ohlcv_cache # None
    /\ ex.current_datetime # NoDatetime
    /\ \E b \in ex.ohlcv_cache.rows :
          /\ b.symbol = symbol
          /\ IF ex.config.market_fill_price_type = "next_open"
             THEN b.datetime > ex.current_datetime
             ELSE b.datetime <= ex.current_datetime

(* C39: submit steps are not deduplicated.  Every run_step(T, s) of a       *)
(* submit step s that ends without error while the store holds a non-empty  *)
(* order table for T calls exchange_client.submit_orders exactly once, with *)
(* that table, however often the step has been run for T before; with a     *)
(* MockExchangeClient that has a bar for the orders, each such call appends *)
(* one more non-empty batch of fills, and the position fetch_positions      *)
(* reports moves by the signed quantity of the orders every time.           *)
C39_SubmitNotDeduplicated ==
    [][(/\ last = NoCall
        /\ last'.via = "run_step"
        /\ last'.step_name \in SubmitSteps
        /\ last'.error = None
        /\ Stored(SubmittedArtifact(last'.step_name), last'.target_date) # None
        /\ Height(Stored(SubmittedArtifact(last'.step_name), last'.target_date)) > 0)
       => LET orders == Stored(SubmittedArtifact(last'.step_name), last'.target_date)
              ordered == OrderedQuantity(to_dicts(orders), "AAPL")
          IN /\ Cardinality(CallsOf(last', "submit_orders")) = 1
             /\ \A i \in CallsOf(last', "submit_orders") :
                   last'.calls[i].args = <<orders>>
             /\ BarAvailable(exchange, "AAPL") =>
                   /\ Len(exchange'.fill_history) = Len(exchange.fill_history) + 1
                   /\ exchange'.fill_history[Len(exchange'.fill_history)] # <<>>
                   /\ NumFills(exchange') = NumFills(exchange) + Height(orders)
                   /\ PositionQuantities(exchange', "AAPL")
                        = {q + ordered : q \in PositionQuantities(exchange, "AAPL")}
      ]_vars

\* SUBMIT_ENTRY_ORDERS has been run twice for one date over the same stored
\* buy of 10: the history holds two batches and the position is 20
C39_Witness ==
    /\ last.via = "run_step"
    /\ last.step_name = SUBMIT_ENTRY_ORDERS
    /\ last.error = None
    /\ ncalls = 2
    /\ Stored("entry_orders", last.target_date) = OrdBuy
    /\ Len(exchange.fill_history) = 2
    /\ PositionQuantities(exchange, "AAPL") = {20}

-----------------------------------------------------------------------------
\* the datetime of the bar a client matches a market order of the symbol
\* against when its cursor is at dt
MatchedBar(ex, symbol, dt) ==
    LET bars == {b.datetime : b \in {r \in ex.ohlcv_cache.rows : r.symbol = symbol}}
    IN IF ex.config.market_fill_price_type = "next_open"
       THEN {t \in bars : t > dt /\ \A u \in bars : u > dt => t <= u}
       ELSE {t \in bars : t <= dt /\ \A u \in bars : u <= dt => u <= t}

\* every row is a market order
MarketOrders(orders) == \A i \in 1 .. Len(orders.rows) : orders.rows[i].order_type = "market"

(* C40: run_step never moves the simulator's cursor.  After any run_step    *)
(* the MockExchangeClient's current_datetime and OHLCV cache are what they  *)
(* were before it; the fills a submit step for T records are stamped with   *)
(* the bar found from the cursor last set through set_current_datetime, not *)
(* from T; and while the cursor or the cache is unset, the submit_orders    *)
(* call of a submit step with valid market orders returns, the step ends    *)
(* without error and no fill is recorded.                                   *)
C40_CursorNotMoved ==
    [][(last = NoCall /\ last'.via = "run_step")
       => /\ exchange'.current_datetime = exchange.current_datetime
          /\ exchange'.ohlcv_cache = exchange.ohlcv_cache
          /\ \A k \in (Len(exchange.fill_history) + 1) .. Len(exchange'.fill_history) :
                \A j \in 1 .. Len(exchange'.fill_history[k]) :
                    exchange'.fill_history[k][j].timestamp
                        \in MatchedBar(exchange, "AAPL", exchange.current_datetime)
          /\ \A i \in CallsOf(last', "submit_orders") :
                (/\ exchange.ohlcv_cache = None \/ exchange.current_datetime = NoDatetime
                 /\ OrderSchema_validate(last'.calls[i].args[1])
                 /\ MarketOrders(last'.calls[i].args[1]))
                => /\ last'.calls[i].exc = None
                   /\ last'.error = None
                   /\ exchange'.fill_history = exchange.fill_history
      ]_vars

\* a submit step for T has recorded a fill while the cursor stood at another
\* datetime, and the fill carries the bar of the cursor, which is not the
\* bar a cursor at T would have given
C40_Witness ==
    /\ last.via = "run_step"
    /\ last.step_name \in SubmitSteps
    /\ last.error = None
    /\ exchange.current_datetime # NoDatetime
    /\ exchange.current_datetime # last.target_date
    /\ Len(exchange.fill_history) = 1
    /\ exchange.fill_history[1][1].timestamp
          \in MatchedBar(exchange, "AAPL", exchange.current_datetime)
    /\ exchange.fill_history[1][1].timestamp
          \notin MatchedBar(exchange, "AAPL", last.target_date)

====
